---------------------------- MODULE Spec2Model ----------------------------
(***************************************************************************)
(* Air-quality service: the request pipeline get_air_quality, the TTL      *)
(* cache CacheService, the AQI calculator calculate_aqi and the forecast   *)
(* engine MLService.predict_forecast.                                      *)
(*                                                                         *)
(* Numbers.  Concentrations are integers in hundredths of the source's     *)
(* unit (12.1 -> 1210).  Weather scalars are integers in tenths (the       *)
(* weather adapter rounds to one decimal).  Forecast terms are integers    *)
(* in hundredths of an AQI point.  Arithmetic is exact; Python's float     *)
(* arithmetic agrees with it on every grid point used here.                *)
(***************************************************************************)
EXTENDS Integers, Sequences, FiniteSets, TLC

VARIABLES
    cache,        \* CacheService._cache: key -> value
    timestamps,   \* CacheService._timestamps: key -> creation time
    now,          \* time.time()
    current_time, \* cleanup_expired's local current_time, while a call is in progress
    ret,          \* the last completed CacheService call and what it returned
    ret_before,   \* the completed CacheService call before that one
    written,      \* history: key -> the latest set(key, value) and its time, since the last clear
    req,          \* the get_air_quality requests in flight
    input,        \* argument of the function called directly
    output,       \* its result
    prev,         \* the argument and result of the call before, when a call is repeated
    lock,         \* CacheService._lock: the thread that holds it, if any
    threads       \* the threads inside CacheService calls, statement by statement

cacheVars == <<cache, timestamps, now, current_time, ret, ret_before, written>>

callVars == <<input, output, prev>>

lockVars == <<lock, threads>>

vars == <<cache, timestamps, now, current_time, ret, ret_before, written,
          req, input, output, prev, lock, threads>>

---------------------------------------------------------------------------
(* Python values *)

\* Optional[x]: None is the empty sequence, a value x is <<x>>.
None == <<>>

Some(x) == <<x>>

IsNone(o) == Len(o) = 0

\* The empty dict {}.
EmptyDict == [k \in {} |-> 0]

\* dict.get(key, default)
DictGet(d, k, default) == IF k \in DOMAIN d THEN d[k] ELSE default

\* d[k] = v
DictPut(d, k, v) == [x \in DOMAIN d \cup {k} |-> IF x = k THEN v ELSE d[x]]

\* del d[k]
DictDel(d, k) == [x \in DOMAIN d \ {k} |-> d[x]]

\* max(...) of a non-empty set of integers
Max(S) == CHOOSE x \in S : \A y \in S : y <= x

\* min(a, b), max(a, b)
Min2(a, b) == IF a <= b THEN a ELSE b

Max2(a, b) == IF a >= b THEN a ELSE b

\* round(n / d) for n >= 0, d > 0: Python 3 rounds halves to the even integer.
round(n, d) ==
    LET q == n \div d
        r == n % d
    IN  IF 2 * r < d THEN q
        ELSE IF 2 * r > d THEN q + 1
        ELSE IF q % 2 = 0 THEN q ELSE q + 1

\* int(n / d): truncation toward zero.
int(n, d) == IF n >= 0 THEN n \div d ELSE -((-n) \div d)

---------------------------------------------------------------------------
(* utils/aqi_calculator.py: calculate_aqi *)

\* (bp_low, bp_high, aqi_low, aqi_high), concentrations in hundredths.
breakpoints ==
    [ pm25 |-> << <<0, 1200, 0, 50>>, <<1210, 3540, 51, 100>>,
                  <<3550, 5540, 101, 150>>, <<5550, 15040, 151, 200>>,
                  <<15050, 25040, 201, 300>>, <<25050, 50040, 301, 500>> >>,
      pm10 |-> << <<0, 5400, 0, 50>>, <<5500, 15400, 51, 100>>,
                  <<15500, 25400, 101, 150>>, <<25500, 35400, 151, 200>>,
                  <<35500, 42400, 201, 300>>, <<42500, 60400, 301, 500>> >>,
      o3   |-> << <<0, 5400, 0, 50>>, <<5500, 7000, 51, 100>>,
                  <<7100, 8500, 101, 150>>, <<8600, 10500, 151, 200>>,
                  <<10600, 20000, 201, 300>> >>,
      no2  |-> << <<0, 5300, 0, 50>>, <<5400, 10000, 51, 100>>,
                  <<10100, 36000, 101, 150>>, <<36100, 64900, 151, 200>>,
                  <<65000, 124900, 201, 300>>, <<125000, 204900, 301, 500>> >>,
      so2  |-> << <<0, 3500, 0, 50>>, <<3600, 7500, 51, 100>>,
                  <<7600, 18500, 101, 150>>, <<18600, 30400, 151, 200>>,
                  <<30500, 60400, 201, 300>>, <<60500, 100400, 301, 500>> >>,
      co   |-> << <<0, 440, 0, 50>>, <<450, 940, 51, 100>>,
                  <<950, 1240, 101, 150>>, <<1250, 1540, 151, 200>>,
                  <<1550, 3040, 201, 300>>, <<3050, 5040, 301, 500>> >> ]

\* if bp_low <= concentration <= bp_high
InSegmentStrictHigh(seg, concentration) ==
    seg[1] <= concentration /\ concentration < seg[2]

InSegment(seg, concentration) ==
    seg[1] <= concentration /\ concentration <= seg[2]

\* aqi = ((aqi_high - aqi_low) / (bp_high - bp_low)) * (concentration - bp_low) + aqi_low;
\* int(round(aqi))
Interpolate(seg, concentration) ==
    round((seg[4] - seg[3]) * (concentration - seg[1]) + seg[3] * (seg[2] - seg[1]),
          seg[2] - seg[1])

\* The for/else over a pollutant's table: the first segment holding the
\* concentration gives the sub-index; when no segment does, 500 if the
\* concentration is above the last upper bound, and otherwise nothing.
RECURSIVE SegmentScan(_, _, _)
SegmentScan(table, i, concentration) ==
    IF i > Len(table)
    THEN IF concentration > table[Len(table)][2] THEN Some(500) ELSE None
    ELSE IF InSegment(table[i], concentration)
         THEN Some(Interpolate(table[i], concentration))
         ELSE SegmentScan(table, i + 1, concentration)

\* An iteration that reads a concentration below the first lower bound as
\* lying in the first segment.
SubIndexFromLowestSegment(pollutant, data) ==
    IF pollutant \notin DOMAIN breakpoints THEN None
    ELSE IF IsNone(data.value) THEN None
    ELSE IF data.value[1] < breakpoints[pollutant][1][1]
         THEN Some(Interpolate(breakpoints[pollutant][1], data.value[1]))
         ELSE SegmentScan(breakpoints[pollutant], 1, data.value[1])

\* One iteration of "for pollutant, data in pollutants.items()": what the
\* pollutant offers to max_aqi, if anything.
SubIndex(pollutant, data) ==
    IF pollutant \notin DOMAIN breakpoints THEN None
    ELSE IF IsNone(data.value) THEN None
    ELSE SegmentScan(breakpoints[pollutant], 1, data.value[1])

\* The sub-indices of all pollutants of the dict.
SubIndices(pollutants) ==
    { SubIndex(p, pollutants[p])[1] :
        p \in { q \in DOMAIN pollutants : ~IsNone(SubIndex(q, pollutants[q])) } }

\* A calculator that averages the sub-indices instead of taking the worst.
calculate_aqi_average(pollutants) ==
    IF DOMAIN pollutants = {} THEN 50
    ELSE LET subs == { p \in DOMAIN pollutants : ~IsNone(SubIndex(p, pollutants[p])) }
             RECURSIVE Sum(_)
             Sum(S) == IF S = {} THEN 0
                       ELSE LET p == CHOOSE x \in S : TRUE
                            IN  SubIndex(p, pollutants[p])[1] + Sum(S \ {p})
             max_aqi == IF subs = {} THEN 0 ELSE Sum(subs) \div Cardinality(subs)
         IN  IF max_aqi > 0 THEN Max2(max_aqi, 50) ELSE 50

calculate_aqi(pollutants) ==
    IF DOMAIN pollutants = {} THEN 50
    ELSE LET max_aqi == Max({0} \cup SubIndices(pollutants))
         IN  IF max_aqi > 0 THEN Max2(max_aqi, 50) ELSE 50


---------------------------------------------------------------------------
(* services/cache_service.py: CacheService *)

\* settings.cache_ttl_seconds (CACHE_TTL_SECONDS), in clock ticks.
ttl == 2

\* The clock stops at MaxTime.
MaxTime == 4

\* set that leaves an existing entry's timestamp as it was.
set_keeping_timestamp(c, ts, t, key, value) ==
    [ cache |-> DictPut(c, key, value),
      timestamps |-> IF key \in DOMAIN ts THEN ts ELSE DictPut(ts, key, t) ]

\* get whose expiry test is "age >= ttl".
get_expiring_at_ttl(c, ts, t, key) ==
    IF key \notin DOMAIN c
    THEN [cache |-> c, timestamps |-> ts, value |-> None]
    ELSE IF t - ts[key] >= ttl
         THEN [cache |-> DictDel(c, key), timestamps |-> DictDel(ts, key), value |-> None]
         ELSE [cache |-> c, timestamps |-> ts, value |-> Some(c[key])]

\* cleanup_expired that deletes the timestamps only.
cleanup_expired_timestamps_only(c, ts, ct) ==
    LET expired_keys == { key \in DOMAIN ts : ct - ts[key] > ttl }
    IN  [ cache |-> c,
          timestamps |-> [key \in DOMAIN ts \ expired_keys |-> ts[key]],
          removed_count |-> Cardinality(expired_keys) ]

\* set that leaves an entry already stored under the key as it is.
set_unless_present(c, ts, t, key, value) ==
    IF key \in DOMAIN c
    THEN [cache |-> c, timestamps |-> ts]
    ELSE [cache |-> DictPut(c, key, value), timestamps |-> DictPut(ts, key, t)]

\* set that keeps an entry of the key that is not older than the TTL.
set_first_write_wins(c, ts, t, key, value) ==
    IF key \in DOMAIN c /\ t - ts[key] <= ttl
    THEN [cache |-> c, timestamps |-> ts]
    ELSE [cache |-> DictPut(c, key, value), timestamps |-> DictPut(ts, key, t)]

\* get that reports an expired entry as absent and leaves it in the store.
get_keeping_expired(c, ts, t, key) ==
    IF key \notin DOMAIN c
    THEN [cache |-> c, timestamps |-> ts, value |-> None]
    ELSE IF t - ts[key] > ttl
         THEN [cache |-> c, timestamps |-> ts, value |-> None]
         ELSE [cache |-> c, timestamps |-> ts, value |-> Some(c[key])]

\* get(key) at time t on the store (c, ts): the store afterwards and the
\* value returned.
get(c, ts, t, key) ==
    IF key \notin DOMAIN c
    THEN [cache |-> c, timestamps |-> ts, value |-> None]
    ELSE IF t - ts[key] > ttl
         THEN [cache |-> DictDel(c, key), timestamps |-> DictDel(ts, key), value |-> None]
         ELSE [cache |-> c, timestamps |-> ts, value |-> Some(c[key])]

\* set(key, value) at time t.
set(c, ts, t, key, value) ==
    [ cache |-> DictPut(c, key, value), timestamps |-> DictPut(ts, key, t) ]

\* clear()
clear == [cache |-> EmptyDict, timestamps |-> EmptyDict]

\* size()
size(c) == Cardinality(DOMAIN c)

\* The locked part of cleanup_expired(), with the current_time ct that the
\* call read before it took the lock.
cleanup_expired(c, ts, ct) ==
    LET expired_keys == { key \in DOMAIN ts : ct - ts[key] > ttl }
    IN  [ cache |-> [key \in DOMAIN c \ expired_keys |-> c[key]],
          timestamps |-> [key \in DOMAIN ts \ expired_keys |-> ts[key]],
          removed_count |-> Cardinality(expired_keys) ]

---------------------------------------------------------------------------
(* CacheService driven by arbitrary callers *)

\* No CacheService call has completed yet.
NoCall ==
    [ op |-> "none", key |-> "", value |-> None, n |-> 0, at |-> 0,
      size_before |-> 0, size_after |-> 0 ]


CacheKeys == {"k1", "k2"}

CacheValues == {"v1", "v2"}

\* A completed call: what was called, when, and what it returned (value for
\* get, n for size and cleanup_expired), with len(_cache) on entry and exit.
Completed(op, key, value, n, before, after) ==
    [ op |-> op, key |-> key, value |-> value, n |-> n, at |-> now,
      size_before |-> before, size_after |-> after ]

\* Variables of the other components, at rest.
CacheIdle ==
    /\ cache = EmptyDict
    /\ timestamps = EmptyDict
    /\ now = 0
    /\ current_time = None
    /\ ret = NoCall
    /\ ret_before = NoCall
    /\ written = EmptyDict
    /\ lock = None
    /\ threads = EmptyDict

ReqIdle == req = EmptyDict

CallIdle ==
    /\ input = None
    /\ output = None
    /\ prev = None

InitCache ==
    /\ CacheIdle
    /\ ReqIdle
    /\ CallIdle

\* time passes
Tick ==
    /\ now < MaxTime
    /\ now' = now + 1
    /\ UNCHANGED <<cache, timestamps, current_time, ret, ret_before, written,
                   req, callVars, lockVars>>

CallGet(key) ==
    LET r == get(cache, timestamps, now, key)
    IN  /\ cache' = r.cache
        /\ timestamps' = r.timestamps
        /\ ret' = Completed("get", key, r.value, 0, size(cache), size(r.cache))
        /\ ret_before' = ret
        /\ UNCHANGED <<now, current_time, written, req, callVars, lockVars>>

CallSet(key, value) ==
    LET r == set(cache, timestamps, now, key, value)
    IN  /\ cache' = r.cache
        /\ timestamps' = r.timestamps
        /\ ret' = Completed("set", key, None, 0, size(cache), size(r.cache))
        /\ ret_before' = ret
        /\ written' = DictPut(written, key, [value |-> value, at |-> now])
        /\ UNCHANGED <<now, current_time, req, callVars, lockVars>>

CallClear ==
    /\ cache' = clear.cache
    /\ timestamps' = clear.timestamps
    /\ ret' = Completed("clear", "", None, 0, size(cache), 0)
    /\ ret_before' = ret
    /\ written' = EmptyDict
    /\ UNCHANGED <<now, current_time, req, callVars, lockVars>>

CallSize ==
    /\ ret' = Completed("size", "", None, size(cache), size(cache), size(cache))
    /\ ret_before' = ret
    /\ UNCHANGED <<cache, timestamps, now, current_time, written, req, callVars, lockVars>>

\* cleanup_expired(), first statement: current_time = time.time(), before
\* the lock is taken.
CleanupReadTime ==
    /\ IsNone(current_time)
    /\ current_time' = Some(now)
    /\ UNCHANGED <<cache, timestamps, now, ret, ret_before, written, req, callVars, lockVars>>

\* cleanup_expired(), the rest: the locked sweep and the return.
CleanupSweep ==
    /\ ~IsNone(current_time)
    /\ LET r == cleanup_expired(cache, timestamps, current_time[1])
       IN  /\ cache' = r.cache
           /\ timestamps' = r.timestamps
           /\ ret' = Completed("cleanup_expired", "", None, r.removed_count,
                               size(cache), size(r.cache))
    /\ ret_before' = ret
    /\ current_time' = None
    /\ UNCHANGED <<now, written, req, callVars, lockVars>>

NextCache ==
    \/ Tick
    \/ \E key \in CacheKeys : CallGet(key)
    \/ \E key \in CacheKeys : \E value \in CacheValues : CallSet(key, value)
    \/ CallClear
    \/ CallSize
    \/ CleanupReadTime
    \/ CleanupSweep

SpecCache == InitCache /\ [][NextCache]_vars

---------------------------------------------------------------------------
(* Claims about CacheService, checked under SpecCache *)

\* The last completed call was get(key), made when the latest set of that
\* key (with no clear since) was `age` ticks old.
GetAtAge(call, age) ==
    /\ call.op = "get"
    /\ call.key \in DOMAIN written
    /\ call.at - written[call.key].at = age

\* C3: set(k, v) followed by get(k), with no set or clear of k in between,
\* returns v while the entry's age is not greater than the TTL, and returns
\* absent once the age exceeds the TTL.
C3_RoundTrip ==
    (ret.op = "get" /\ ret.key \in DOMAIN written) =>
        LET w == written[ret.key]
        IN  /\ (ret.at - w.at <= ttl => ret.value = Some(w.value))
            /\ (ret.at - w.at > ttl => ret.value = None)

\* get(k) returned v when the entry was exactly ttl old, and the next call,
\* get(k) again after the TTL had elapsed, returned absent.
C3_Witness ==
    /\ GetAtAge(ret_before, ttl)
    /\ ret_before.value = Some(written[ret_before.key].value)
    /\ ret.op = "get"
    /\ ret.key = ret_before.key
    /\ ret.at - written[ret.key].at > ttl
    /\ ret.value = None

\* get(k) was called on an entry whose TTL had elapsed, and returned absent.
ExpiredGet(call) ==
    /\ call.op = "get"
    /\ call.key \in DOMAIN written
    /\ call.at - written[call.key].at > ttl
    /\ call.value = None

\* C4 as stated: after get(k) has returned absent for an entry whose TTL has
\* elapsed, the next cleanup_expired() returns a count of at least 1 and
\* size() is smaller after it than before it.
C4_CleanupAfterExpiredGetShrinks ==
    (ret.op = "cleanup_expired" /\ ExpiredGet(ret_before)) =>
        /\ ret.n >= 1
        /\ ret.size_after < ret.size_before

\* C4 amended: get(k) on an entry whose TTL has elapsed removes the entry
\* itself, so a following cleanup_expired() does not count k.
\* cleanup_expired() removes exactly the entries still stored whose age, at
\* the time the call read the clock, exceeds the TTL; it returns their
\* number and size() decreases by that number (so by at least 1 exactly
\* when such an entry is still stored).
C4_CleanupCountsStoredExpired ==
    [][ CleanupSweep =>
          LET stale == { key \in DOMAIN cache :
                           current_time[1] - timestamps[key] > ttl }
          IN  /\ ret'.n = Cardinality(stale)
              /\ DOMAIN cache' = DOMAIN cache \ stale
              /\ size(cache') = size(cache) - ret'.n
              /\ ret'.size_before = size(cache)
              /\ ret'.size_after = size(cache')
              /\ ((ret.op = "get" /\ ret.value = None) => ret.key \notin stale)
      ]_vars

\* cleanup_expired() ran right after get(k1) had returned absent for an
\* expired entry, and removed one other expired entry that was still stored.
C4_Witness ==
    /\ ret.op = "cleanup_expired"
    /\ ExpiredGet(ret_before)
    /\ ret.n = 1
    /\ ret.size_after = ret.size_before - 1

\* Every entry but the one under key is the same before and after the step.
OthersKept(key) ==
    /\ DOMAIN cache' \ {key} = DOMAIN cache \ {key}
    /\ DOMAIN timestamps' \ {key} = DOMAIN timestamps \ {key}
    /\ \A other \in DOMAIN cache \ {key} :
          /\ cache'[other] = cache[other]
          /\ timestamps'[other] = timestamps[other]

\* C17: get(k) on a stored entry older than the TTL returns absent and
\* removes the entry in that same call, with no cleanup_expired involved;
\* get(k) on an entry whose age equals the TTL returns the value and keeps
\* the entry.
C17_GetExpiresLazily ==
    [][ \A key \in CacheKeys :
          (CallGet(key) /\ key \in DOMAIN cache) =>
              /\ now - timestamps[key] > ttl =>
                    /\ ret'.value = None
                    /\ key \notin DOMAIN cache'
                    /\ key \notin DOMAIN timestamps'
                    /\ OthersKept(key)
                    /\ current_time' = current_time
              /\ now - timestamps[key] <= ttl =>
                    /\ ret'.value = Some(cache[key])
                    /\ cache' = cache
                    /\ timestamps' = timestamps
      ]_vars

\* get(k) has just returned absent for an entry older than the TTL and the
\* entry is gone, while no cleanup_expired() has run or is running; the get
\* before it, at age exactly TTL, had returned the value.
C17_Witness ==
    /\ ExpiredGet(ret)
    /\ ret.size_after = ret.size_before - 1
    /\ ret.key \notin DOMAIN cache
    /\ IsNone(current_time)
    /\ GetAtAge(ret_before, ttl)
    /\ ret_before.key = ret.key
    /\ ~IsNone(ret_before.value)
    /\ ret_before.size_after = ret_before.size_before

\* C18: set(k, v) replaces whatever is stored under k, expired or not, and
\* sets the entry's creation time to the time of the call, so that get(k)
\* serves v at every age up to the TTL counted from this set and no longer;
\* the entries under other keys stay as they are.
C18_SetOverwritesAndRestartsAge ==
    [][ \A key \in CacheKeys : \A value \in CacheValues :
          CallSet(key, value) =>
              /\ key \in DOMAIN cache'
              /\ cache'[key] = value
              /\ timestamps'[key] = now
              /\ OthersKept(key)
              /\ \A age \in 0..ttl :
                    get(cache', timestamps', now + age, key).value = Some(value)
              /\ get(cache', timestamps', now + ttl + 1, key).value = None
      ]_vars

\* set(k, v) was followed, more than a TTL later and with the entry still in
\* the store, by set(k, w): the store holds w, stamped with the time of the
\* second set.
C18_Witness ==
    /\ ret.op = "set"
    /\ ret_before.op = "set"
    /\ ret.key = ret_before.key
    /\ ret.at - ret_before.at > ttl
    /\ ret.size_before = ret.size_after
    /\ ret.key \in DOMAIN cache
    /\ cache[ret.key] = written[ret.key].value
    /\ timestamps[ret.key] = ret.at
    /\ now = ret.at

---------------------------------------------------------------------------
(* Calls of calculate_aqi on bounded inputs *)

\* Largest number of pollutants in one probed dict.
MaxPollutants == 2

\* PollutantReading names: the six tabled pollutants and hcho (TEMPO only).
PollutantNames == {"pm25", "pm10", "o3", "no2", "so2", "co", "hcho"}

\* Both bounds of every segment of a pollutant's table.
BoundaryConcs(p) ==
    UNION { {breakpoints[p][i][1], breakpoints[p][i][2]} :
              i \in 1..Len(breakpoints[p]) }

\* A concentration strictly between each segment's upper bound and the next
\* segment's lower bound (12.05 for pm25, 54.05 for pm10, ...).
GapConcs(p) ==
    { breakpoints[p][i][2] + 5 : i \in 1..(Len(breakpoints[p]) - 1) }

\* Below the lowest lower bound, and above the highest upper bound.
OutsideConcs(p) ==
    { -100, breakpoints[p][Len(breakpoints[p])][2] + 100 }

\* The middle of every segment.
MidConcs(p) ==
    { (breakpoints[p][i][1] + breakpoints[p][i][2]) \div 2 :
        i \in 1..Len(breakpoints[p]) }

\* The "value" fields probed for pollutant p when it is the only pollutant.
Concs(p) ==
    IF p \in DOMAIN breakpoints
    THEN BoundaryConcs(p) \cup GapConcs(p) \cup MidConcs(p) \cup OutsideConcs(p)
    ELSE {250}

\* The "value" fields probed for p inside a dict of several pollutants:
\* below the table, sub-index 0, sub-index 100, and above the table (500).
ProbeConcs(p) ==
    IF p \in DOMAIN breakpoints
    THEN { -100, breakpoints[p][1][1], breakpoints[p][2][2],
           breakpoints[p][Len(breakpoints[p])][2] + 100 }
    ELSE {250}

SingleInputs ==
    { [q \in {p} |-> [value |-> v]] :
        p \in PollutantNames,
        v \in {None} \cup { Some(c) : c \in UNION { Concs(n) : n \in PollutantNames } } }

MultiInputs ==
    UNION { { f \in [S -> { [value |-> Some(c)] :
                              c \in UNION { ProbeConcs(n) : n \in S } }] :
                \A p \in S : f[p].value[1] \in ProbeConcs(p) } :
            S \in { T \in SUBSET PollutantNames :
                      Cardinality(T) >= 2 /\ Cardinality(T) <= MaxPollutants } }

AqiInputs ==
    {EmptyDict}
    \cup { f \in SingleInputs :
             \A p \in DOMAIN f : IsNone(f[p].value) \/ f[p].value[1] \in Concs(p) }
    \cup MultiInputs

InitAqi ==
    /\ CacheIdle
    /\ ReqIdle
    /\ input \in AqiInputs
    /\ output = None
    /\ prev = None

\* aqi_value = calculate_aqi(pollutants)
Calculate ==
    /\ IsNone(output)
    /\ output' = Some(calculate_aqi(input))
    /\ UNCHANGED <<cacheVars, lockVars, req, input, prev>>

\* A second call in which one pollutant's concentration is higher and every
\* other entry of the dict is the same.
Recalculate(p, c) ==
    /\ ~IsNone(output)
    /\ IsNone(prev)
    /\ p \in DOMAIN input
    /\ ~IsNone(input[p].value)
    /\ c > input[p].value[1]
    /\ input' = [input EXCEPT ![p] = [value |-> Some(c)]]
    /\ output' = Some(calculate_aqi(input'))
    /\ prev' = Some([input |-> input, output |-> output[1], pollutant |-> p])
    /\ UNCHANGED <<cacheVars, lockVars, req>>

NextAqi ==
    \/ Calculate
    \/ \E p \in PollutantNames : \E c \in Concs(p) : Recalculate(p, c)

SpecAqi == InitAqi /\ [][NextAqi]_vars

---------------------------------------------------------------------------
(* Claims about calculate_aqi, checked under SpecAqi *)

\* C8: calculate_aqi returns the maximum of the per-pollutant sub-indices
\* (never their average), floored at 50; it returns 50 for the empty dict;
\* the result is always in [0, 500].
C8_MaxSubIndexFlooredAt50 ==
    ~IsNone(output) =>
        LET v == output[1]
            subs == SubIndices(input)
        IN  /\ v \in 0..500
            /\ v >= 50
            /\ (DOMAIN input = {} => v = 50)
            /\ \A s \in subs : v >= s
            /\ (v = 50 \/ v \in subs)

\* Two pollutants with different sub-indices, the result being the larger.
C8_Witness ==
    /\ ~IsNone(output)
    /\ Cardinality(DOMAIN input) >= 2
    /\ Cardinality(SubIndices(input)) >= 2
    /\ output[1] = Max(SubIndices(input))
    /\ output[1] > 50

\* The dict holds exactly pollutant p, tabled, at concentration c.
OnlyPollutantAt(p, c) ==
    /\ DOMAIN input = {p}
    /\ p \in DOMAIN breakpoints
    /\ input[p].value = Some(c)

\* C9 as stated: for a single tabled pollutant at a segment's bp_low the
\* result is exactly aqi_low, and at bp_high exactly aqi_high.
C9_ExactAtBoundary ==
    (~IsNone(output) /\ IsNone(prev)) =>
        \A p \in DOMAIN breakpoints : \A i \in 1..Len(breakpoints[p]) :
            LET seg == breakpoints[p][i]
            IN  /\ (OnlyPollutantAt(p, seg[1]) => output[1] = seg[3])
                /\ (OnlyPollutantAt(p, seg[2]) => output[1] = seg[4])

\* C9 amended: for a single tabled pollutant at a segment's bp_high the
\* result is exactly aqi_high, and at bp_low it is exactly aqi_low except
\* where aqi_low is below 50 (the lowest segment's lower bound, aqi_low 0),
\* where the floor of 50 is returned.
C9_BoundaryFlooredAt50 ==
    (~IsNone(output) /\ IsNone(prev)) =>
        \A p \in DOMAIN breakpoints : \A i \in 1..Len(breakpoints[p]) :
            LET seg == breakpoints[p][i]
            IN  /\ (OnlyPollutantAt(p, seg[1]) =>
                      output[1] = (IF seg[3] < 50 THEN 50 ELSE seg[3]))
                /\ (OnlyPollutantAt(p, seg[2]) => output[1] = seg[4])

\* A single pollutant at the upper bound of a segment above the first, the
\* result being that segment's aqi_high.
C9_Witness ==
    /\ ~IsNone(output)
    /\ IsNone(prev)
    /\ \E p \in DOMAIN breakpoints : \E i \in 2..Len(breakpoints[p]) :
          /\ OnlyPollutantAt(p, breakpoints[p][i][2])
          /\ output[1] = breakpoints[p][i][4]
          /\ output[1] > 50

\* C10: calculate_aqi is monotonic non-decreasing in each pollutant's
\* concentration: raising one pollutant's concentration, the others fixed,
\* never lowers the result (gaps between segments included).
C10_Monotonic ==
    ~IsNone(prev) => output[1] >= prev[1].output

---------------------------------------------------------------------------
(* services/ml_service.py: MLService *)

\* if len(historical_data) < 24
MinHistory == 24

\* if len(features) < 10
MinFeatures == 10

\* base_aqi = 65
base_aqi == 65

\* A diurnal term that gives the rush hours nothing more than the night.
time_effect_without_rush(hour) ==
    IF hour \in {10, 11, 12, 13, 14, 15} THEN 5
    ELSE -10

\* The diurnal term of _simple_forecast for an hour of the day.
time_effect(hour) ==
    IF hour \in {7, 8, 17, 18, 19} THEN 15
    ELSE IF hour \in {10, 11, 12, 13, 14, 15} THEN 5
    ELSE -10

\* predicted_aqi = max(0, min(500, int(predicted_aqi))), the argument in
\* hundredths of a point.
clamp_aqi(hundredths) == Max2(0, Min2(500, int(hundredths, 100)))

\* The sum of _simple_forecast for one hour, in hundredths: weather scalars
\* are in tenths, noise in hundredths.
simple_sum(weather_data, hour, noise) ==
    LET wind_speed == DictGet(weather_data, "wind_speed_ms", 30)
        precipitation == DictGet(weather_data, "precip_mm", 0)
        temperature == DictGet(weather_data, "temp_c", 200)
        wind_effect == -Min2(2000, wind_speed * 30)
        rain_effect == -Min2(1500, precipitation * 50)
        temp_effect == Max2(0, (temperature - 250) * 5)
    IN  base_aqi * 100 + wind_effect + rain_effect + temp_effect
        + time_effect(hour) * 100 + noise

\* _simple_forecast without the clamp to [0, 500].
simple_forecast_unclamped(weather_data, hours, hour_now, noise) ==
    [ h \in 1..hours |->
        [ t |-> h,
          aqi |-> int(simple_sum(weather_data, (hour_now + h) % 24, noise[h]), 100) ] ]

\* _simple_forecast(weather_data, hours), called when the clock's hour of
\* day is hour_now, noise[h] being the h-th draw of np.random.normal(0, 5).
\* A point's t is the number of hours after now.
simple_forecast(weather_data, hours, hour_now, noise) ==
    [ h \in 1..hours |->
        [ t |-> h,
          aqi |-> clamp_aqi(simple_sum(weather_data, (hour_now + h) % 24, noise[h])) ] ]

\* _prepare_training_data: raises KeyError when a point lacks "t" or "aqi";
\* otherwise one feature row per point from the fourth on.
prepare_training_data(historical_data) ==
    IF \E i \in 1..Len(historical_data) :
          ~({"t", "aqi"} \subseteq DOMAIN historical_data[i])
    THEN [raised |-> TRUE, rows |-> 0]
    ELSE [raised |-> FALSE, rows |-> Max2(0, Len(historical_data) - 3)]

\* _train_model: the random forest, and the linear model when fitting the
\* forest raises; raises when fitting the linear model raises too.
train_model(rf_fit_raises, lr_fit_raises) ==
    IF ~rf_fit_raises THEN [raised |-> FALSE, model |-> "RandomForestRegressor"]
    ELSE IF ~lr_fit_raises THEN [raised |-> FALSE, model |-> "LinearRegression"]
    ELSE [raised |-> TRUE, model |-> "none"]

\* The prediction loop of predict_forecast: predicted[h] is what
\* model.predict returns for hour h (hundredths); the call for hour
\* predict_raises_at raises (0: none does).
model_forecast(hours, predicted, predict_raises_at) ==
    IF predict_raises_at \in 1..hours
    THEN [raised |-> TRUE, forecast |-> <<>>]
    ELSE [ raised |-> FALSE,
           forecast |-> [h \in 1..hours |-> [t |-> h, aqi |-> clamp_aqi(predicted[h])]] ]

\* What the environment contributes to one call: the random draws, the
\* values the fitted model predicts, and which library calls raise.
\* env = [noise, predicted, rf_fit_raises, lr_fit_raises, predict_raises_at]

\* A result of predict_forecast.
Returned(path, forecast) == [raised |-> FALSE, path |-> path, forecast |-> forecast]

Raised == [raised |-> TRUE, path |-> "none", forecast |-> <<>>]

\* predict_forecast without the try/except around the model path.
predict_forecast_unguarded(historical_data, weather_data, hours, hour_now, env) ==
    LET heuristic == Returned("heuristic",
                              simple_forecast(weather_data, hours, hour_now, env.noise))
        data == prepare_training_data(historical_data)
        fitted == train_model(env.rf_fit_raises, env.lr_fit_raises)
        loop == model_forecast(hours, env.predicted, env.predict_raises_at)
    IN  IF Len(historical_data) < MinHistory THEN heuristic
        ELSE IF data.raised THEN Raised
        ELSE IF data.rows < MinFeatures THEN heuristic
        ELSE IF fitted.raised THEN Raised
        ELSE IF loop.raised THEN Raised
        ELSE Returned("model", loop.forecast)

\* predict_forecast that takes the heuristic path for a history of exactly
\* 24 points too.
predict_forecast_above_minimum(historical_data, weather_data, hours, hour_now, env) ==
    LET heuristic == Returned("heuristic",
                              simple_forecast(weather_data, hours, hour_now, env.noise))
        data == prepare_training_data(historical_data)
        fitted == train_model(env.rf_fit_raises, env.lr_fit_raises)
        loop == model_forecast(hours, env.predicted, env.predict_raises_at)
    IN  IF Len(historical_data) <= MinHistory THEN heuristic
        ELSE IF data.raised THEN heuristic
        ELSE IF data.rows < MinFeatures THEN heuristic
        ELSE IF fitted.raised THEN heuristic
        ELSE IF loop.raised THEN heuristic
        ELSE Returned("model", loop.forecast)

\* predict_forecast(lat, lon, historical_data, weather_data, hours)
predict_forecast(historical_data, weather_data, hours, hour_now, env) ==
    LET heuristic == Returned("heuristic",
                              simple_forecast(weather_data, hours, hour_now, env.noise))
        data == prepare_training_data(historical_data)
        fitted == train_model(env.rf_fit_raises, env.lr_fit_raises)
        loop == model_forecast(hours, env.predicted, env.predict_raises_at)
    IN  IF Len(historical_data) < MinHistory THEN heuristic
        ELSE IF data.raised THEN heuristic
        ELSE IF data.rows < MinFeatures THEN heuristic
        ELSE IF fitted.raised THEN heuristic
        ELSE IF loop.raised THEN heuristic
        ELSE Returned("model", loop.forecast)

---------------------------------------------------------------------------
(* Calls of predict_forecast on bounded inputs *)

\* Largest forecast horizon probed (the endpoint allows 1..48).
MaxHours == 2

\* Weather dicts as WeatherService returns them (scalars in tenths), and the
\* empty dict the endpoint passes when the adapter gave nothing.
WeatherCalm ==
    [ precip_mm |-> 0, wind_speed_ms |-> 0, temp_c |-> 200, humidity |-> 60,
      source |-> <<"IMERG", "MERRA-2">> ]

WeatherStorm ==
    [ precip_mm |-> 50, wind_speed_ms |-> 100, temp_c |-> 100, humidity |-> 90,
      source |-> <<"IMERG", "MERRA-2">> ]

WeatherHot ==
    [ precip_mm |-> 0, wind_speed_ms |-> 21, temp_c |-> 400, humidity |-> 30,
      source |-> <<"IMERG", "MERRA-2">> ]

Weathers == {EmptyDict, WeatherCalm, WeatherStorm, WeatherHot}

\* datetime.now().hour at the call: the next hours are rush hours (6),
\* midday (9), the last rush hour and the first hour of the night (18), or
\* night across midnight (22).
StartHours == {6, 9, 18, 22}

\* A well-formed hourly history of n points, as get_historical_data returns it.
History(n) == [i \in 1..n |-> [t |-> i, aqi |-> 40 + (i % 5) * 20]]

\* A history with one point that has no "aqi".
MalformedHistory ==
    [i \in 1..MinHistory |-> IF i = 5 THEN [t |-> i] ELSE [t |-> i, aqi |-> 60]]

Histories ==
    { History(0), History(MinHistory - 1), History(MinHistory),
      History(MinHistory + 1), MalformedHistory }

\* Draws of np.random.normal(0, 5), in hundredths: three standard deviations
\* either way, and two far outliers that reach the clamps.
Noises == {-10000, -1500, 1500, 50000}

\* Values model.predict may return, in hundredths: below 0, inside, above 500.
PredictedValues == {-1250, 7740, 62030}

\* Which library calls raise: none; the forest's fit; both fits; predict for
\* the first hour; predict for the last hour.
FaultCases(hours) ==
    { [rf_fit_raises |-> FALSE, lr_fit_raises |-> FALSE, predict_raises_at |-> 0],
      [rf_fit_raises |-> TRUE, lr_fit_raises |-> FALSE, predict_raises_at |-> 0],
      [rf_fit_raises |-> TRUE, lr_fit_raises |-> TRUE, predict_raises_at |-> 0],
      [rf_fit_raises |-> FALSE, lr_fit_raises |-> FALSE, predict_raises_at |-> 1],
      [rf_fit_raises |-> FALSE, lr_fit_raises |-> FALSE, predict_raises_at |-> hours] }

NoFault == [rf_fit_raises |-> FALSE, lr_fit_raises |-> FALSE, predict_raises_at |-> 0]

Env(n, v, f) ==
    [ noise |-> n, predicted |-> v, rf_fit_raises |-> f.rf_fit_raises,
      lr_fit_raises |-> f.lr_fit_raises, predict_raises_at |-> f.predict_raises_at ]

\* Every sequence of draws with every fault case (the predictions all the
\* middle value), and every sequence of predictions with no fault (the
\* draws all the same).
Envs(hours) ==
    { Env(n, [h \in 1..hours |-> 7740], f) :
        n \in [1..hours -> Noises], f \in FaultCases(hours) }
    \cup { Env([h \in 1..hours |-> 1500], v, NoFault) :
             v \in [1..hours -> PredictedValues] }

InitForecast ==
    /\ CacheIdle
    /\ ReqIdle
    /\ input \in { [ historical_data |-> hd, weather_data |-> wd,
                     hours |-> hs, hour_now |-> hn ] :
                     hd \in Histories, wd \in Weathers,
                     hs \in 1..MaxHours, hn \in StartHours }
    /\ output = None
    /\ prev = None

\* forecast_data = await ml_service.predict_forecast(lat, lon, historical_list,
\* weather_dict, hours)
PredictForecast(env) ==
    /\ IsNone(output)
    /\ output' = Some([ result |-> predict_forecast(input.historical_data,
                                                     input.weather_data, input.hours,
                                                     input.hour_now, env),
                        env |-> env ])
    /\ UNCHANGED <<cacheVars, lockVars, req, input, prev>>

NextForecast == \E env \in Envs(input.hours) : PredictForecast(env)

SpecForecast == InitForecast /\ [][NextForecast]_vars

---------------------------------------------------------------------------
(* Claims about predict_forecast, checked under SpecForecast *)

\* C6: predict_forecast returns exactly `hours` points, each with an integer
\* AQI in [0, 500], on the model path and on the heuristic path alike.
C6_HoursPointsInRange ==
    (~IsNone(output) /\ ~output[1].result.raised) =>
        LET forecast == output[1].result.forecast
        IN  /\ output[1].result.path \in {"model", "heuristic"}
            /\ Len(forecast) = input.hours
            /\ \A h \in 1..Len(forecast) :
                  /\ forecast[h].aqi \in 0..500
                  /\ forecast[h].t = h

\* A model-path forecast of two or more points in which one prediction was
\* clamped down to 500 and another up to 0.
C6_Witness ==
    /\ ~IsNone(output)
    /\ ~output[1].result.raised
    /\ output[1].result.path = "model"
    /\ input.hours >= 2
    /\ Len(output[1].result.forecast) = input.hours
    /\ \E h \in 1..input.hours : output[1].result.forecast[h].aqi = 500
    /\ \E h \in 1..input.hours : output[1].result.forecast[h].aqi = 0

\* An exception is raised inside the model path of the call: the history is
\* long enough and data preparation, both fits, or a prediction raises.
ModelPathRaises(in, env) ==
    /\ Len(in.historical_data) >= MinHistory
    /\ \/ \E i \in 1..Len(in.historical_data) : "aqi" \notin DOMAIN in.historical_data[i]
       \/ (env.rf_fit_raises /\ env.lr_fit_raises)
       \/ env.predict_raises_at \in 1..in.hours

\* C7: predict_forecast never ends in an exception, and when an exception is
\* raised inside the model path the heuristic path's output for the same
\* horizon is returned.
C7_NeverRaises ==
    ~IsNone(output) =>
        /\ ~output[1].result.raised
        /\ ModelPathRaises(input, output[1].env) =>
              /\ output[1].result.path = "heuristic"
              /\ Len(output[1].result.forecast) = input.hours
              /\ output[1].result.forecast =
                    simple_forecast(input.weather_data, input.hours, input.hour_now,
                                    output[1].env.noise)

\* A call in which model.predict raised for the last hour and the heuristic
\* forecast was returned.
C7_Witness ==
    /\ ~IsNone(output)
    /\ Len(input.historical_data) >= MinHistory
    /\ output[1].env.predict_raises_at = input.hours
    /\ \A i \in 1..Len(input.historical_data) : "aqi" \in DOMAIN input.historical_data[i]
    /\ ~output[1].result.raised
    /\ output[1].result.path = "heuristic"
    /\ Len(output[1].result.forecast) = input.hours

\* The number of training rows feature construction yields from a history
\* of n points: one per point from the fourth on.
TrainingRows(n) == IF n > 3 THEN n - 3 ELSE 0

\* C20: predict_forecast takes the heuristic path whenever the history has
\* fewer than 24 points or fewer than 10 training rows result, and the model
\* path (fit, then one clamped prediction per hour) whenever the history has
\* at least 24 points, at least 10 training rows result and no exception
\* leaves the model path; too little data is never reported as an error.
C20_PathSelection ==
    ~IsNone(output) =>
        LET n == Len(input.historical_data)
            result == output[1].result
            env == output[1].env
        IN  /\ (n < 24 \/ TrainingRows(n) < 10) =>
                  /\ ~result.raised
                  /\ result.path = "heuristic"
                  /\ result.forecast =
                        simple_forecast(input.weather_data, input.hours,
                                        input.hour_now, env.noise)
            /\ (n >= 24 /\ TrainingRows(n) >= 10 /\ ~ModelPathRaises(input, env)) =>
                  /\ ~result.raised
                  /\ result.path = "model"
                  /\ Len(result.forecast) = input.hours
                  /\ \A h \in 1..input.hours :
                        result.forecast[h].aqi =
                           Max2(0, Min2(500, int(env.predicted[h], 100)))

\* A history of exactly 24 points, with the forest's fit failing and the
\* linear fit succeeding, forecast on the model path.
C20_Witness ==
    /\ ~IsNone(output)
    /\ Len(input.historical_data) = 24
    /\ output[1].env.rf_fit_raises
    /\ ~output[1].env.lr_fit_raises
    /\ output[1].result.path = "model"
    /\ Len(output[1].result.forecast) = input.hours

---------------------------------------------------------------------------
(* utils/aqi_calculator.py: get_health_advice; api/airquality.py: get_aqi_category *)

\* The six AQI bands shared by get_aqi_category and get_health_advice.
get_aqi_category(aqi) ==
    IF aqi <= 50 THEN "Good"
    ELSE IF aqi <= 100 THEN "Moderate"
    ELSE IF aqi <= 150 THEN "Unhealthy for Sensitive Groups"
    ELSE IF aqi <= 200 THEN "Unhealthy"
    ELSE IF aqi <= 300 THEN "Very Unhealthy"
    ELSE "Hazardous"

\* The general statement of each band.
general_text ==
    [ i \in 1..6 |->
        CASE i = 1 -> "Air quality is good. Perfect day for outdoor activities."
          [] i = 2 -> "Air quality is moderate. Sensitive individuals may experience minor symptoms."
          [] i = 3 -> "Sensitive groups should limit prolonged outdoor exertion."
          [] i = 4 -> "Everyone should limit prolonged outdoor exertion."
          [] i = 5 -> "Everyone should avoid all outdoor exertion."
          [] OTHER -> "Health warning: everyone should stay indoors and avoid all outdoor activities." ]

\* The four profile texts of each band.
profile_texts ==
    [ i \in 1..6 |->
        CASE i = 1 ->
               [ children |-> "Great day for outdoor play and sports.",
                 asthma |-> "Normal outdoor activities are fine.",
                 elderly |-> "Enjoy outdoor activities as usual.",
                 athletes |-> "Excellent conditions for training and competition." ]
          [] i = 2 ->
               [ children |-> "Outdoor activities are generally safe, but watch for any symptoms.",
                 asthma |-> "Consider carrying your rescue inhaler during outdoor activities.",
                 elderly |-> "Take breaks during prolonged outdoor activities.",
                 athletes |-> "You may experience slight decrease in performance during intense workouts." ]
          [] i = 3 ->
               [ children |-> "Limit intense outdoor activities. Choose indoor alternatives when possible.",
                 asthma |-> "Avoid prolonged outdoor exertion. Have your inhaler readily available.",
                 elderly |-> "Reduce time spent outdoors, especially during midday hours.",
                 athletes |-> "Consider indoor training. If outdoors, reduce intensity and duration." ]
          [] i = 4 ->
               [ children |-> "Avoid outdoor activities. Choose indoor play and exercise.",
                 asthma |-> "Stay indoors as much as possible. Have emergency medications available.",
                 elderly |-> "Minimize outdoor exposure. Consider staying indoors with air filtration.",
                 athletes |-> "Move workouts indoors. Avoid outdoor training." ]
          [] i = 5 ->
               [ children |-> "Stay indoors. Keep windows closed and use air purifiers if available.",
                 asthma |-> "Stay indoors with windows and doors closed. Avoid all outdoor activities.",
                 elderly |-> "Remain indoors. Consider using air purifiers and avoiding physical exertion.",
                 athletes |-> "Cancel outdoor training. Even indoor activities should be light." ]
          [] OTHER ->
               [ children |-> "Emergency conditions: keep children indoors with air filtration if possible.",
                 asthma |-> "Emergency: stay indoors, have medications ready, seek medical attention if symptoms worsen.",
                 elderly |-> "Emergency: stay indoors, minimize physical activity, seek medical care if needed.",
                 athletes |-> "Emergency: cancel all activities. Even light indoor exercise should be avoided." ] ]

\* The branch of get_health_advice's if/elif chain taken for an AQI.
advice_band(aqi) ==
    IF aqi <= 50 THEN 1
    ELSE IF aqi <= 100 THEN 2
    ELSE IF aqi <= 150 THEN 3
    ELSE IF aqi <= 200 THEN 4
    ELSE IF aqi <= 300 THEN 5
    ELSE 6

\* get_health_advice whose weather tests are "wind_speed >= 5.0" and
\* "precipitation >= 2.0".
get_health_advice_from_threshold(aqi, weather_data) ==
    LET wind_speed == DictGet(weather_data, "wind_speed_ms", 0)
        precipitation == DictGet(weather_data, "precip_mm", 0)
    IN  [ general |->
            <<general_text[advice_band(aqi)]>>
            \o (IF wind_speed >= 50
                THEN <<" Strong winds may help disperse pollutants.">> ELSE <<>>)
            \o (IF precipitation >= 20
                THEN <<" Rain is helping to clear the air.">> ELSE <<>>),
          profiles |-> profile_texts[advice_band(aqi)] ]

\* get_health_advice(aqi, weather_data).  "general" is the sequence of the
\* sentences concatenated into the general string; weather scalars in tenths.
get_health_advice(aqi, weather_data) ==
    LET wind_speed == DictGet(weather_data, "wind_speed_ms", 0)
        precipitation == DictGet(weather_data, "precip_mm", 0)
    IN  [ general |->
            <<general_text[advice_band(aqi)]>>
            \o (IF wind_speed > 50
                THEN <<" Strong winds may help disperse pollutants.">> ELSE <<>>)
            \o (IF precipitation > 20
                THEN <<" Rain is helping to clear the air.">> ELSE <<>>),
          profiles |-> profile_texts[advice_band(aqi)] ]

---------------------------------------------------------------------------
(* api/airquality.py: get_air_quality *)

\* hours: int = Query(24, ge=1, le=48)
DefaultHours == 24

\* f"{x:.2f}" for a coordinate x given in thousandths: the sign and the
\* hundredths of the absolute value ("-0.00" and "0.00" are different).
format_2f(x) ==
    [ sign |-> IF x < 0 THEN "-" ELSE "",
      hundredths |-> round(IF x < 0 THEN -x ELSE x, 10) ]

\* cache_key = f"airquality:{lat:.2f}:{lon:.2f}"
cache_key(lat, lon) == <<"airquality", format_2f(lat), format_2f(lon)>>

\* utils/geo_utils.py format_location_name: degrees, minutes and hemisphere.
format_location_name(lat, lon) ==
    LET abs(x) == IF x < 0 THEN -x ELSE x
    IN  [ lat_deg |-> abs(lat) \div 1000, lat_min |-> ((abs(lat) % 1000) * 60) \div 1000,
          lat_dir |-> IF lat >= 0 THEN "N" ELSE "S",
          lon_deg |-> abs(lon) \div 1000, lon_min |-> ((abs(lon) % 1000) * 60) \div 1000,
          lon_dir |-> IF lon >= 0 THEN "E" ELSE "W" ]

\* What asyncio.gather(..., return_exceptions=True) holds for one task.
Pending(empty) == [state |-> "pending", value |-> empty]

RaisedException(empty) == [state |-> "raised", value |-> empty]

ReturnedValue(v) == [state |-> "returned", value |-> v]

\* Lines 66-88, for one gathered result: the empty dict or list when the
\* task raised or returned something falsy, and its data otherwise.
data_or_empty(result, empty) ==
    IF result.state = "raised" THEN empty
    ELSE IF DOMAIN result.value # {} THEN result.value
    ELSE empty

\* asyncio.gather without return_exceptions=True: the first exception of a
\* task is raised out of the await.
gather_propagating(tempo_data, openaq_data, weather_data, historical_data) ==
    [ raised |-> \E result \in {tempo_data, openaq_data, weather_data} :
                    result.state = "raised"
                 \/ historical_data.state = "raised" ]

\* await asyncio.gather(*tasks, return_exceptions=True): exceptions come
\* back as results, the await itself does not raise.
gather(tempo_data, openaq_data, weather_data, historical_data) ==
    [raised |-> FALSE]

\* A value of an OpenAQ measurement as the JSON carries it: a number (in
\* hundredths) or, from a malformed upstream reply, a string.
JsonNumber(v) == [type |-> "number", value |-> v]

JsonString == [type |-> "string", value |-> 0]

\* The first loop of the merge: every TEMPO pollutant whose value is not None.
tempo_readings(tempo_dict) ==
    [ pollutant \in { p \in DOMAIN tempo_dict : ~IsNone(tempo_dict[p]) } |->
        [ value |-> tempo_dict[pollutant],
          unit |-> IF pollutant # "hcho" THEN "ug/m3" ELSE "ppb",
          source |-> <<"TEMPO">> ] ]

\* A blend that weighs both sources alike.
merged_val_even(tempo_val, value) == (tempo_val * 5 + value * 5) \div 10

\* merged_val = (tempo_val * 0.4) + (value * 0.6), values in hundredths.
merged_val(tempo_val, value) == (tempo_val * 4 + value * 6) \div 10

\* A merge that inserts the OpenAQ values first and overlays the TEMPO
\* readings on them.
merge_pollutants_ground_first(tempo_dict, openaq_dict) ==
    LET from_tempo == tempo_readings(tempo_dict)
        ground == DictGet(openaq_dict, "pollutants", EmptyDict)
    IN  [ pollutant \in DOMAIN from_tempo \cup DOMAIN ground |->
            IF pollutant \notin DOMAIN ground THEN from_tempo[pollutant]
            ELSE IF pollutant \in DOMAIN from_tempo
            THEN [ value |-> Some(merged_val(from_tempo[pollutant].value[1],
                                             ground[pollutant].value)),
                   unit |-> "ug/m3",
                   source |-> <<"OpenAQ", "TEMPO">> ]
            ELSE [ value |-> Some(ground[pollutant].value),
                   unit |-> "ug/m3",
                   source |-> <<"OpenAQ">> ] ]

\* The second loop of the merge: every OpenAQ pollutant is blended into the
\* TEMPO reading of the same name, or inserted on its own.
merge_pollutants(tempo_dict, openaq_dict) ==
    LET from_tempo == tempo_readings(tempo_dict)
        ground == DictGet(openaq_dict, "pollutants", EmptyDict)
    IN  [ pollutant \in DOMAIN from_tempo \cup DOMAIN ground |->
            IF pollutant \notin DOMAIN ground THEN from_tempo[pollutant]
            ELSE IF pollutant \in DOMAIN from_tempo
            THEN [ value |-> Some(merged_val(from_tempo[pollutant].value[1],
                                             ground[pollutant].value)),
                   unit |-> from_tempo[pollutant].unit,
                   source |-> Append(from_tempo[pollutant].source, "OpenAQ") ]
            ELSE [ value |-> Some(ground[pollutant].value),
                   unit |-> "ug/m3",
                   source |-> <<"OpenAQ">> ] ]

\* Whether lines 90-159 raise: arithmetic, comparison or float validation
\* on a pollutant value that is no number, or ForecastPoint(**point) on a
\* history point without "t" or "aqi".
assembly_raises(tempo_dict, openaq_dict, weather_dict, historical_list) ==
    \/ \E p \in DOMAIN DictGet(openaq_dict, "pollutants", EmptyDict) :
          openaq_dict.pollutants[p].type # "number"
    \/ \E i \in 1..Len(historical_list) :
          ~({"t", "aqi"} \subseteq DOMAIN historical_list[i])

\* WeatherData(**weather_dict) if weather_dict else WeatherData(precip_mm=0.0,
\* wind_speed_ms=0.0, temp_c=20.0, humidity=60, source=[])
weather_model(weather_dict) ==
    IF DOMAIN weather_dict # {} THEN weather_dict
    ELSE [ precip_mm |-> 0, wind_speed_ms |-> 0, temp_c |-> 200, humidity |-> 60,
           source |-> <<>> ]

\* historical_list[-168:]
last_168(historical_list) ==
    IF Len(historical_list) <= 168 THEN historical_list
    ELSE SubSeq(historical_list, Len(historical_list) - 167, Len(historical_list))

\* provenance=DataProvenance(...)
provenance(tempo_dict, openaq_dict, weather_dict) ==
    [ tempo |-> IF DOMAIN tempo_dict # {}
                THEN Some([product |-> "NO2/O3/PM/HCHO", nrt |-> TRUE]) ELSE None,
      openaq |-> IF DOMAIN openaq_dict # {}
                 THEN Some([station_ids |-> DictGet(openaq_dict, "station_ids", <<>>)])
                 ELSE None,
      meteo |-> [ imerg |-> "precip_mm" \in DOMAIN weather_dict,
                  merra2 |-> "wind_speed_ms" \in DOMAIN weather_dict ] ]

\* Lines 90-159 when nothing raises: the AirQualityResponse built from the
\* normalised adapter data, at clock reading t, with the forecast engine's
\* environment env and the hour of day hour_now.
build_response(lat, lon, hours, tempo_dict, openaq_dict, weather_dict, historical_list, t, hour_now, env) ==
    LET merged_pollutants == merge_pollutants(tempo_dict, openaq_dict)
        aqi_value == calculate_aqi(merged_pollutants)
        health_advice == get_health_advice(aqi_value, weather_dict)
        forecast_data == predict_forecast(historical_list, weather_dict, hours,
                                          hour_now, env)
    IN  [ coord |-> [lat |-> lat, lon |-> lon],
          location_name |-> format_location_name(lat, lon),
          timestamp_iso |-> t,
          pollutants |-> merged_pollutants,
          weather |-> weather_model(weather_dict),
          aqi |-> [ value |-> aqi_value, scale |-> "0-500",
                    category |-> get_aqi_category(aqi_value) ],
          forecast_24h |-> forecast_data.forecast,
          advice |-> health_advice,
          history_7d |-> last_168(historical_list),
          provenance |-> provenance(tempo_dict, openaq_dict, weather_dict) ]

---------------------------------------------------------------------------
(* get_air_quality as a process: one step per stretch between awaits *)

\* A request slot: where the handler is, its arguments, what gather holds
\* for each task, the order in which the tasks finished, and what the caller
\* got (status 200 with a response, or status 500).
IdleRequest ==
    [ pc |-> "idle", lat |-> 0, lon |-> 0, hours |-> 0,
      tempo_data |-> Pending(EmptyDict), openaq_data |-> Pending(EmptyDict),
      weather_data |-> Pending(EmptyDict), historical_data |-> Pending(<<>>),
      order |-> <<>>, status |-> 0, response |-> None, from_cache |-> FALSE ]

\* Lines 47-63: derive the key and look in the cache; a hit is returned as
\* it is, a miss creates the four tasks and awaits them.
Start(r, lat, lon, hours) ==
    /\ req[r].pc = "idle"
    /\ LET cached_data == get(cache, timestamps, now, cache_key(lat, lon))
       IN  /\ cache' = cached_data.cache
           /\ timestamps' = cached_data.timestamps
           /\ req' = [req EXCEPT ![r] =
                        IF ~IsNone(cached_data.value)
                        THEN [ IdleRequest EXCEPT
                                 !.pc = "done", !.lat = lat, !.lon = lon, !.hours = hours,
                                 !.status = 200, !.response = cached_data.value,
                                 !.from_cache = TRUE ]
                        ELSE [ IdleRequest EXCEPT
                                 !.pc = "fetching", !.lat = lat, !.lon = lon,
                                 !.hours = hours ]]
    /\ UNCHANGED <<now, current_time, ret, ret_before, written, callVars, lockVars>>

AdapterNames == {"tempo_data", "openaq_data", "weather_data", "historical_data"}

\* One of the four tasks finishes: it raised, or it returned a value.
Complete(r, task, result) ==
    /\ req[r].pc = "fetching"
    /\ req[r][task].state = "pending"
    /\ req' = [req EXCEPT ![r][task] = result, ![r].order = Append(@, task)]
    /\ UNCHANGED <<cacheVars, callVars, lockVars>>

\* All four tasks finish before the handler runs again, in the order of the
\* task list.
Gather(r, tempo_data, openaq_data, weather_data, historical_data) ==
    /\ req[r].pc = "fetching"
    /\ \A task \in AdapterNames : req[r][task].state = "pending"
    /\ req' = [req EXCEPT ![r] =
                 [ @ EXCEPT !.tempo_data = tempo_data, !.openaq_data = openaq_data,
                            !.weather_data = weather_data,
                            !.historical_data = historical_data,
                            !.order = <<"tempo_data", "openaq_data", "weather_data",
                                        "historical_data">> ]]
    /\ UNCHANGED <<cacheVars, callVars, lockVars>>

\* A handler that writes an empty record under the key when assembly
\* raises, before it reports the failure.
AssembleStoringFailure(r, hour_now, env) ==
    /\ req[r].pc = "fetching"
    /\ \A task \in AdapterNames : req[r][task].state # "pending"
    /\ LET q == req[r]
           tempo_dict == data_or_empty(q.tempo_data, EmptyDict)
           openaq_dict == data_or_empty(q.openaq_data, EmptyDict)
           weather_dict == data_or_empty(q.weather_data, EmptyDict)
           historical_list == data_or_empty(q.historical_data, <<>>)
           failed == assembly_raises(tempo_dict, openaq_dict, weather_dict,
                                     historical_list)
           response_data == IF failed THEN EmptyDict
                            ELSE build_response(q.lat, q.lon, q.hours, tempo_dict,
                                                openaq_dict, weather_dict,
                                                historical_list, now, hour_now, env)
           stored == set(cache, timestamps, now, cache_key(q.lat, q.lon), response_data)
       IN  /\ req' = IF failed
                     THEN [req EXCEPT ![r].pc = "failed", ![r].status = 500]
                     ELSE [req EXCEPT ![r].pc = "done", ![r].status = 200,
                                      ![r].response = Some(response_data)]
           /\ cache' = stored.cache
           /\ timestamps' = stored.timestamps
    /\ UNCHANGED <<now, current_time, ret, ret_before, written, callVars, lockVars>>

\* Lines 61-168 once gather has all four results: normalise, merge, compute,
\* build the response, store it under the key and return it; any exception
\* becomes HTTPException(500) and the cache is not written.
Assemble(r, hour_now, env) ==
    /\ req[r].pc = "fetching"
    /\ \A task \in AdapterNames : req[r][task].state # "pending"
    /\ LET q == req[r]
           gathered == gather(q.tempo_data, q.openaq_data, q.weather_data,
                              q.historical_data)
           tempo_dict == data_or_empty(q.tempo_data, EmptyDict)
           openaq_dict == data_or_empty(q.openaq_data, EmptyDict)
           weather_dict == data_or_empty(q.weather_data, EmptyDict)
           historical_list == data_or_empty(q.historical_data, <<>>)
           forecast_data == predict_forecast(historical_list, weather_dict, q.hours,
                                             hour_now, env)
           response_data == build_response(q.lat, q.lon, q.hours, tempo_dict,
                                           openaq_dict, weather_dict, historical_list,
                                           now, hour_now, env)
           stored == set(cache, timestamps, now, cache_key(q.lat, q.lon), response_data)
       IN  IF \/ gathered.raised
              \/ assembly_raises(tempo_dict, openaq_dict, weather_dict, historical_list)
              \/ forecast_data.raised
           THEN /\ req' = [req EXCEPT ![r].pc = "failed", ![r].status = 500]
                /\ UNCHANGED <<cache, timestamps>>
           ELSE /\ req' = [req EXCEPT ![r].pc = "done", ![r].status = 200,
                                       ![r].response = Some(response_data)]
                /\ cache' = stored.cache
                /\ timestamps' = stored.timestamps
    /\ UNCHANGED <<now, current_time, ret, ret_before, written, callVars, lockVars>>

\* The caller has its answer; the slot serves the next request.
Return(r) ==
    /\ req[r].pc \in {"done", "failed"}
    /\ req' = [req EXCEPT ![r] = IdleRequest]
    /\ UNCHANGED <<cacheVars, callVars, lockVars>>

---------------------------------------------------------------------------
(* Requests on bounded inputs *)

\* (lat, lon) in thousandths of a degree: two points of one cache cell, and
\* a point just south-east of (0, 0).
Coords == { <<40712, -74004>>, <<40714, -74001>>, <<-4, 4>> }

\* Forecast horizons requested: a short one and the default.
ShortHours == 2

RequestHours == {ShortHours, DefaultHours}

TempoData == [no2 |-> Some(1000), o3 |-> None, hcho |-> Some(250)]

OpenaqData ==
    [ pollutants |-> [no2 |-> JsonNumber(2000), pm10 |-> JsonNumber(15400)],
      station_ids |-> <<"101">> ]

\* A reply whose measurement value is a string.
OpenaqMalformed ==
    [ pollutants |-> [no2 |-> JsonString], station_ids |-> <<"101">> ]

TempoResults ==
    { RaisedException(EmptyDict), ReturnedValue(EmptyDict), ReturnedValue(TempoData) }

OpenaqResults ==
    { RaisedException(EmptyDict), ReturnedValue(EmptyDict), ReturnedValue(OpenaqData),
      ReturnedValue(OpenaqMalformed) }

WeatherResults ==
    { RaisedException(EmptyDict), ReturnedValue(EmptyDict), ReturnedValue(WeatherStorm) }

HistoryResults ==
    { RaisedException(<<>>), ReturnedValue(<<>>), ReturnedValue(History(MinHistory)) }

TaskResults(task) ==
    CASE task = "tempo_data" -> TempoResults
      [] task = "openaq_data" -> OpenaqResults
      [] task = "weather_data" -> WeatherResults
      [] OTHER -> HistoryResults

\* datetime.now().hour when the forecast is made.
RequestHourNow == {6}

\* The forecast engine's environment in a request: one of two noise levels
\* for every hour, one predicted value, no library fault.
RequestEnvs(hours) ==
    { Env([h \in 1..hours |-> n], [h \in 1..hours |-> 7740], NoFault) :
        n \in {-1500, 1500} }

\* One request against a fresh process, each task finishing on its own.
Init ==
    /\ CacheIdle
    /\ CallIdle
    /\ req = [r \in {1} |-> IdleRequest]

TickRequests ==
    /\ now < MaxTime
    /\ now' = now + 1
    /\ UNCHANGED <<cache, timestamps, current_time, ret, ret_before, written,
                   req, callVars, lockVars>>

Next ==
    \/ \E r \in DOMAIN req : \E c \in Coords : \E hours \in RequestHours :
          Start(r, c[1], c[2], hours)
    \/ \E r \in DOMAIN req : \E task \in AdapterNames : \E result \in TaskResults(task) :
          Complete(r, task, result)
    \/ \E r \in DOMAIN req : \E hour_now \in RequestHourNow :
          \E env \in RequestEnvs(req[r].hours) : Assemble(r, hour_now, env)

Spec == Init /\ [][Next]_vars

---------------------------------------------------------------------------
(* Requests that follow and overlap each other on one shared cache *)

RequestIds == {1, 2}

\* What the four tasks of one request come back with: every source down,
\* every source with data, or data with a malformed ground reply.
GatherCases ==
    { <<RaisedException(EmptyDict), RaisedException(EmptyDict),
        RaisedException(EmptyDict), RaisedException(<<>>)>>,
      <<ReturnedValue(TempoData), ReturnedValue(OpenaqData),
        ReturnedValue(WeatherStorm), ReturnedValue(History(MinHistory))>>,
      <<ReturnedValue(TempoData), ReturnedValue(OpenaqMalformed),
        ReturnedValue(WeatherStorm), ReturnedValue(History(MinHistory))>> }

\* The forecast engine's environment when requests overlap: one noise
\* level, one predicted value, no library fault.
SteadyEnvs(hours) ==
    { Env([h \in 1..hours |-> 1500], [h \in 1..hours |-> 7740], NoFault) }

\* The two points that share a cache cell.
CellCoords == { <<40712, -74004>>, <<40714, -74001>> }

InitRequests ==
    /\ CacheIdle
    /\ CallIdle
    /\ req = [r \in RequestIds |-> IdleRequest]

NextRequests ==
    \/ TickRequests
    \/ \E r \in DOMAIN req : \E c \in CellCoords : \E hours \in RequestHours :
          Start(r, c[1], c[2], hours)
    \/ \E r \in DOMAIN req : \E g \in GatherCases : Gather(r, g[1], g[2], g[3], g[4])
    \/ \E r \in DOMAIN req : \E hour_now \in RequestHourNow :
          \E env \in SteadyEnvs(req[r].hours) : Assemble(r, hour_now, env)
    \/ \E r \in DOMAIN req : Return(r)

SpecRequests == InitRequests /\ [][NextRequests]_vars

---------------------------------------------------------------------------
(* Degraded sources *)

\* The task raised or returned nothing.
NoData(result) ==
    \/ result.state = "raised"
    \/ result.state = "returned" /\ result.value \in {EmptyDict, <<>>}

\* The handler has answered request r, one way or the other.
Answered(r) == req[r].pc \in {"done", "failed"}

AllSourcesDown(r) ==
    \A task \in AdapterNames : NoData(req[r][task])

DefaultWeather ==
    [ precip_mm |-> 0, wind_speed_ms |-> 0, temp_c |-> 200, humidity |-> 60,
      source |-> <<>> ]

\* C1: when all four adapters fail or return empty for a request with
\* hours=24, the request returns a record with the default weather, no
\* pollutants, AQI value 50, category "Moderate" and a 24-point forecast,
\* and no error reaches the caller.
C1_AllDownModerate ==
    \A r \in DOMAIN req :
        Answered(r) /\ AllSourcesDown(r) /\ req[r].hours = DefaultHours =>
            /\ req[r].status = 200
            /\ ~IsNone(req[r].response)
            /\ req[r].response[1].weather = DefaultWeather
            /\ req[r].response[1].pollutants = EmptyDict
            /\ req[r].response[1].aqi.value = 50
            /\ req[r].response[1].aqi.category = "Moderate"
            /\ Len(req[r].response[1].forecast_24h) = 24

\* No task of request r returned a reply the handler cannot read.
WellTyped(r) ==
    req[r].openaq_data # ReturnedValue(OpenaqMalformed)

\* C2: whichever of the four adapter calls raise, return empty or return
\* data, the request completes with a record and status 200; a source
\* that raised or returned empty contributes nothing to the record.
C2_DegradesPerSource ==
    \A r \in DOMAIN req :
        Answered(r) /\ WellTyped(r) /\ ~req[r].from_cache =>
            /\ req[r].pc = "done"
            /\ req[r].status = 200
            /\ ~IsNone(req[r].response)
            /\ LET response == req[r].response[1]
               IN  /\ NoData(req[r].tempo_data) =>
                         /\ IsNone(response.provenance.tempo)
                         /\ \A p \in DOMAIN response.pollutants :
                               response.pollutants[p].source = <<"OpenAQ">>
                   /\ NoData(req[r].openaq_data) =>
                         /\ IsNone(response.provenance.openaq)
                         /\ \A p \in DOMAIN response.pollutants :
                               response.pollutants[p].source = <<"TEMPO">>
                   /\ NoData(req[r].weather_data) =>
                         response.weather = DefaultWeather
                   /\ NoData(req[r].historical_data) =>
                         response.history_7d = <<>>

\* A request answered with a record although the satellite call raised and
\* the weather call came back empty, while both ground calls had data.
C2_Witness ==
    \E r \in DOMAIN req :
        /\ req[r].pc = "done"
        /\ req[r].tempo_data.state = "raised"
        /\ req[r].openaq_data = ReturnedValue(OpenaqData)
        /\ req[r].weather_data = ReturnedValue(EmptyDict)
        /\ req[r].historical_data = ReturnedValue(History(MinHistory))
        /\ DOMAIN req[r].response[1].pollutants = {"no2", "pm10"}

\* C5: the record returned for a request with horizon hours holds a
\* forecast of exactly that many points, fresh or from the cache.
C5_ForecastLengthIsHours ==
    \A r \in DOMAIN req :
        req[r].pc = "done" =>
            Len(req[r].response[1].forecast_24h) = req[r].hours

---------------------------------------------------------------------------
(* The pollutant merge, checked under Spec *)

\* What the satellite call of request r contributed: name -> reading, the
\* names without a reading left out.
SatelliteReadings(r) ==
    IF req[r].tempo_data.state # "returned" THEN EmptyDict
    ELSE [ p \in { n \in DOMAIN req[r].tempo_data.value :
                     ~IsNone(req[r].tempo_data.value[n]) } |->
             req[r].tempo_data.value[p][1] ]

\* What the ground call of request r contributed: name -> measurement.
GroundReadings(r) ==
    IF req[r].openaq_data.state # "returned" THEN EmptyDict
    ELSE [ p \in DOMAIN DictGet(req[r].openaq_data.value, "pollutants", EmptyDict) |->
             req[r].openaq_data.value.pollutants[p].value ]

\* Request r was assembled from its own four task results.
Assembled(r) == req[r].pc = "done" /\ ~req[r].from_cache

\* C11: for each pollutant name, with both a satellite value s and a ground
\* value g the merged value is 0.4*s + 0.6*g tagged [TEMPO, OpenAQ]; with
\* one source only it is that source's value tagged with that source alone;
\* with neither the pollutant is absent from the merged set.
C11_MergePolicy ==
    \A r \in DOMAIN req :
        Assembled(r) =>
            LET s == SatelliteReadings(r)
                g == GroundReadings(r)
                merged == req[r].response[1].pollutants
            IN  \A p \in PollutantNames :
                    /\ p \in DOMAIN s /\ p \in DOMAIN g =>
                          /\ p \in DOMAIN merged
                          /\ merged[p].value[1] * 10 = 4 * s[p] + 6 * g[p]
                          /\ merged[p].source = <<"TEMPO", "OpenAQ">>
                    /\ p \in DOMAIN s /\ p \notin DOMAIN g =>
                          /\ p \in DOMAIN merged
                          /\ merged[p].value = Some(s[p])
                          /\ merged[p].source = <<"TEMPO">>
                    /\ p \notin DOMAIN s /\ p \in DOMAIN g =>
                          /\ p \in DOMAIN merged
                          /\ merged[p].value = Some(g[p])
                          /\ merged[p].source = <<"OpenAQ">>
                    /\ p \notin DOMAIN s /\ p \notin DOMAIN g =>
                          p \notin DOMAIN merged

\* A request assembled from satellite NO2 10.0 and HCHO 2.5 and ground NO2
\* 20.0 and PM10 154.0: NO2 is blended to 16.0, HCHO and PM10 come from one
\* source each, O3 (no satellite reading) is absent.
C11_Witness ==
    \E r \in DOMAIN req :
        /\ Assembled(r)
        /\ SatelliteReadings(r) = [no2 |-> 1000, hcho |-> 250]
        /\ GroundReadings(r) = [no2 |-> 2000, pm10 |-> 15400]
        /\ req[r].response[1].pollutants.no2.value = Some(1600)
        /\ req[r].response[1].pollutants.no2.source = <<"TEMPO", "OpenAQ">>
        /\ DOMAIN req[r].response[1].pollutants = {"no2", "hcho", "pm10"}

---------------------------------------------------------------------------
(* Calls of get_health_advice on bounded inputs *)

\* Both ends of every AQI band.
AdviceAqis == {0, 50, 51, 100, 101, 150, 151, 200, 201, 300, 301, 500}

\* Wind speeds and precipitation in tenths, around the two thresholds.
AdviceWinds == {0, 50, 51, 120}

AdvicePrecips == {0, 20, 21, 100}

\* Weather dicts with both scalars, one of them, or none.
AdviceWeathers ==
    { [wind_speed_ms |-> w, precip_mm |-> p] : w \in AdviceWinds, p \in AdvicePrecips }
    \cup { [wind_speed_ms |-> w] : w \in AdviceWinds }
    \cup { [precip_mm |-> p] : p \in AdvicePrecips }
    \cup { EmptyDict }

InitAdvice ==
    /\ CacheIdle
    /\ ReqIdle
    /\ input \in { [aqi |-> a, weather_data |-> wd] : a \in AdviceAqis,
                                                        wd \in AdviceWeathers }
    /\ output = None
    /\ prev = None

\* health_advice = get_health_advice(aqi_value, weather_dict)
Advise ==
    /\ IsNone(output)
    /\ output' = Some(get_health_advice(input.aqi, input.weather_data))
    /\ UNCHANGED <<cacheVars, lockVars, req, input, prev>>

NextAdvice == Advise

SpecAdvice == InitAdvice /\ [][NextAdvice]_vars

---------------------------------------------------------------------------
(* Claims about get_health_advice, checked under SpecAdvice *)

WindNote == " Strong winds may help disperse pollutants."

RainNote == " Rain is helping to clear the air."

\* The weather dict carries a wind speed above 5.0 m/s.
Windy(wd) == "wind_speed_ms" \in DOMAIN wd /\ wd.wind_speed_ms > 50

\* The weather dict carries a precipitation above 2.0 mm.
Rainy(wd) == "precip_mm" \in DOMAIN wd /\ wd.precip_mm > 20

\* The sentences of a general statement after the first.
Notes(general) == SubSeq(general, 2, Len(general))

\* C12: the wind note is appended to the general statement exactly when
\* wind_speed_ms > 5.0 and the rain note exactly when precip_mm > 2.0, the
\* wind note first when both hold; the four profile texts are the same for
\* every weather input and every AQI of the same band.
C12_WeatherNotesOnGeneralOnly ==
    ~IsNone(output) =>
        LET wd == input.weather_data
            advice == output[1]
        IN  /\ Notes(advice.general) =
                  (IF Windy(wd) THEN <<WindNote>> ELSE <<>>)
                  \o (IF Rainy(wd) THEN <<RainNote>> ELSE <<>>)
            /\ DOMAIN advice.profiles = {"children", "asthma", "elderly", "athletes"}
            /\ \A a \in AdviceAqis : \A other \in AdviceWeathers :
                  get_aqi_category(a) = get_aqi_category(input.aqi) =>
                      get_health_advice(a, other).profiles = advice.profiles

\* Advice given in wind 5.1 m/s and rain 2.1 mm: both notes, wind first.
C12_Witness ==
    /\ ~IsNone(output)
    /\ input.weather_data = [wind_speed_ms |-> 51, precip_mm |-> 21]
    /\ Notes(output[1].general) = <<WindNote, RainNote>>

---------------------------------------------------------------------------
(* The cache in the request pipeline, checked under SpecRequests *)

\* The key request r derives from its coordinates.
KeyOf(q) == cache_key(q.lat, q.lon)

\* The store holds an entry under key that get would still serve.
Live(key) == key \in DOMAIN cache /\ now - timestamps[key] <= ttl

\* C13: a request that missed the cache and completes stores its record
\* under the derived key in the step that completes it; a request that
\* derives a key with an entry no older than the TTL is answered with the
\* stored record as it is, with no adapter task created, nothing recomputed
\* and nothing written.
C13_WriteThroughThenHit ==
    [][ \A r \in DOMAIN req :
          /\ req[r].pc = "fetching" /\ req'[r].pc = "done" =>
                /\ KeyOf(req[r]) \in DOMAIN cache'
                /\ cache'[KeyOf(req[r])] = req'[r].response[1]
                /\ timestamps'[KeyOf(req[r])] = now
          /\ req[r].pc = "idle" /\ req'[r].pc # "idle" /\ Live(KeyOf(req'[r])) =>
                /\ req'[r].pc = "done"
                /\ req'[r].from_cache
                /\ req'[r].status = 200
                /\ req'[r].response = Some(cache[KeyOf(req'[r])])
                /\ \A task \in AdapterNames : req'[r][task].state = "pending"
                /\ cache' = cache
                /\ timestamps' = timestamps ]_vars

\* A request answered from the cache with a record assembled for an earlier
\* request, the entry being exactly one TTL old.
C13_Witness ==
    \E r \in DOMAIN req :
        /\ req[r].pc = "done"
        /\ req[r].from_cache
        /\ KeyOf(req[r]) \in DOMAIN cache
        /\ req[r].response = Some(cache[KeyOf(req[r])])
        /\ timestamps[KeyOf(req[r])] = req[r].response[1].timestamp_iso
        /\ now - timestamps[KeyOf(req[r])] = ttl
        /\ \A task \in AdapterNames : req[r][task].state = "pending"

---------------------------------------------------------------------------
(* CacheService statement by statement, called from several threads *)

ThreadIds == {1, 2}

ThreadOps == {"get", "set", "clear", "size", "cleanup_expired"}

\* How a call ended: it returned value, or it raised KeyError.
ThreadReturned(value) == [raised |-> FALSE, value |-> value]

KeyError == [raised |-> TRUE, value |-> None]

\* A thread outside CacheService; result is how its last call ended.
IdleThread ==
    [ pc |-> "idle", op |-> "none", key |-> "", value |-> "", current_time |-> 0,
      expired_keys |-> {}, removed_count |-> 0, result |-> ThreadReturned(None) ]

\* The thread leaves the with-block and returns result.
Release(t, result) ==
    /\ lock' = None
    /\ threads' = [threads EXCEPT ![t] = [IdleThread EXCEPT !.result = result]]

\* The thread moves on inside its call.
Goto(t, pc) == threads' = [threads EXCEPT ![t].pc = pc]

\* Lines 52-53: current_time = time.time(), before the lock is taken.
ReadTime(t) ==
    /\ threads[t].pc = "read_time"
    /\ threads' = [threads EXCEPT ![t].pc = "acquire", ![t].current_time = now,
                                  ![t].removed_count = 0]
    /\ UNCHANGED <<cacheVars, lock, req, callVars>>

\* A thread enters the store without taking the lock.
EnterUnlocked(t) ==
    /\ threads[t].pc = "acquire"
    /\ Goto(t, "locked")
    /\ UNCHANGED <<cacheVars, lock, req, callVars>>

\* with self._lock: the thread waits until the lock is free and takes it.
Acquire(t) ==
    /\ threads[t].pc = "acquire"
    /\ IsNone(lock)
    /\ lock' = Some(t)
    /\ Goto(t, "locked")
    /\ UNCHANGED <<cacheVars, req, callVars>>

\* A thread calls get(key), set(key, value), clear(), size() or
\* cleanup_expired().
Call(t, op, key, value) ==
    /\ threads[t].pc = "idle"
    /\ threads' = [threads EXCEPT ![t] =
                     [ IdleThread EXCEPT
                         !.pc = IF op = "cleanup_expired" THEN "read_time" ELSE "acquire",
                         !.op = op,
                         !.key = IF op \in {"get", "set"} THEN key ELSE "",
                         !.value = IF op = "set" THEN value ELSE "" ]]
    /\ UNCHANGED <<cacheVars, lock, req, callVars>>

\* Lines 22-31 up to the first del: the membership test, the expiry test
\* and the two returns.
GetTest(t) ==
    /\ threads[t].pc = "locked"
    /\ threads[t].op = "get"
    /\ LET key == threads[t].key
       IN  IF key \notin DOMAIN cache THEN Release(t, ThreadReturned(None))
           ELSE IF key \notin DOMAIN timestamps THEN Release(t, KeyError)
           ELSE IF now - timestamps[key] > ttl
                THEN Goto(t, "del_cache") /\ UNCHANGED lock
                ELSE Release(t, ThreadReturned(Some(cache[key])))
    /\ UNCHANGED <<cacheVars, req, callVars>>

\* Line 27: del self._cache[key]
GetDelCache(t) ==
    /\ threads[t].pc = "del_cache"
    /\ IF threads[t].key \in DOMAIN cache
       THEN /\ cache' = DictDel(cache, threads[t].key)
            /\ Goto(t, "del_timestamp")
            /\ UNCHANGED lock
       ELSE /\ Release(t, KeyError)
            /\ UNCHANGED cache
    /\ UNCHANGED <<timestamps, now, current_time, ret, ret_before, written, req, callVars>>

\* get returning None for an expired entry with its timestamp left behind.
GetReturnKeepingTimestamp(t) ==
    /\ threads[t].pc = "del_timestamp"
    /\ Release(t, ThreadReturned(None))
    /\ UNCHANGED <<cacheVars, req, callVars>>

\* Lines 28-29: del self._timestamps[key]; return None
GetDelTimestamp(t) ==
    /\ threads[t].pc = "del_timestamp"
    /\ IF threads[t].key \in DOMAIN timestamps
       THEN /\ timestamps' = DictDel(timestamps, threads[t].key)
            /\ Release(t, ThreadReturned(None))
       ELSE /\ Release(t, KeyError)
            /\ UNCHANGED timestamps
    /\ UNCHANGED <<cache, now, current_time, ret, ret_before, written, req, callVars>>

\* Line 36: self._cache[key] = value
SetCache(t) ==
    /\ threads[t].pc = "locked"
    /\ threads[t].op = "set"
    /\ cache' = DictPut(cache, threads[t].key, threads[t].value)
    /\ Goto(t, "set_timestamp")
    /\ UNCHANGED <<timestamps, now, current_time, ret, ret_before, written, lock,
                   req, callVars>>

\* Line 37: self._timestamps[key] = time.time()
SetTimestamp(t) ==
    /\ threads[t].pc = "set_timestamp"
    /\ timestamps' = DictPut(timestamps, threads[t].key, now)
    /\ written' = DictPut(written, threads[t].key,
                          [value |-> threads[t].value, at |-> now])
    /\ Release(t, ThreadReturned(None))
    /\ UNCHANGED <<cache, now, current_time, ret, ret_before, req, callVars>>

\* Line 42: self._cache.clear()
ClearCache(t) ==
    /\ threads[t].pc = "locked"
    /\ threads[t].op = "clear"
    /\ cache' = EmptyDict
    /\ Goto(t, "clear_timestamps")
    /\ UNCHANGED <<timestamps, now, current_time, ret, ret_before, written, lock,
                   req, callVars>>

\* Line 43: self._timestamps.clear()
ClearTimestamps(t) ==
    /\ threads[t].pc = "clear_timestamps"
    /\ timestamps' = EmptyDict
    /\ written' = EmptyDict
    /\ Release(t, ThreadReturned(None))
    /\ UNCHANGED <<cache, now, current_time, ret, ret_before, req, callVars>>

\* Line 48: return len(self._cache)
Size(t) ==
    /\ threads[t].pc = "locked"
    /\ threads[t].op = "size"
    /\ Release(t, ThreadReturned(size(cache)))
    /\ UNCHANGED <<cacheVars, req, callVars>>

\* Lines 56-59: the list of the keys whose timestamp is older than the TTL
\* at current_time.
CleanupScan(t) ==
    /\ threads[t].pc = "locked"
    /\ threads[t].op = "cleanup_expired"
    /\ threads' = [threads EXCEPT
                     ![t].pc = "sweep",
                     ![t].expired_keys =
                        { key \in DOMAIN timestamps :
                            threads[t].current_time - timestamps[key] > ttl }]
    /\ UNCHANGED <<cacheVars, lock, req, callVars>>

\* Lines 61-62: the next key of the loop, del self._cache[key]
CleanupDelCache(t) ==
    /\ threads[t].pc = "sweep"
    /\ \E key \in threads[t].expired_keys :
          IF key \in DOMAIN cache
          THEN /\ cache' = DictDel(cache, key)
               /\ threads' = [threads EXCEPT ![t].pc = "sweep_timestamp", ![t].key = key]
               /\ UNCHANGED lock
          ELSE /\ Release(t, KeyError)
               /\ UNCHANGED cache
    /\ UNCHANGED <<timestamps, now, current_time, ret, ret_before, written, req, callVars>>

\* Lines 63-64: del self._timestamps[key]; removed_count += 1
CleanupDelTimestamp(t) ==
    /\ threads[t].pc = "sweep_timestamp"
    /\ IF threads[t].key \in DOMAIN timestamps
       THEN /\ timestamps' = DictDel(timestamps, threads[t].key)
            /\ threads' = [threads EXCEPT
                             ![t].pc = "sweep", ![t].key = "",
                             ![t].expired_keys = @ \ {threads[t].key},
                             ![t].removed_count = @ + 1]
            /\ UNCHANGED lock
       ELSE /\ Release(t, KeyError)
            /\ UNCHANGED timestamps
    /\ UNCHANGED <<cache, now, current_time, ret, ret_before, written, req, callVars>>

\* Line 66, after the loop: return removed_count
CleanupReturn(t) ==
    /\ threads[t].pc = "sweep"
    /\ threads[t].expired_keys = {}
    /\ Release(t, ThreadReturned(threads[t].removed_count))
    /\ UNCHANGED <<cacheVars, req, callVars>>

TickThreads ==
    /\ now < MaxTime
    /\ now' = now + 1
    /\ UNCHANGED <<cache, timestamps, current_time, ret, ret_before, written,
                   req, callVars, lockVars>>

InitThreads ==
    /\ cache = EmptyDict
    /\ timestamps = EmptyDict
    /\ now = 0
    /\ current_time = None
    /\ ret = NoCall
    /\ ret_before = NoCall
    /\ written = EmptyDict
    /\ lock = None
    /\ threads = [t \in ThreadIds |-> IdleThread]
    /\ ReqIdle
    /\ CallIdle

NextThreads ==
    \/ TickThreads
    \/ \E t \in ThreadIds : \E op \in ThreadOps : \E key \in CacheKeys :
          \E value \in CacheValues : Call(t, op, key, value)
    \/ \E t \in ThreadIds : ReadTime(t)
    \/ \E t \in ThreadIds : Acquire(t)
    \/ \E t \in ThreadIds : GetTest(t)
    \/ \E t \in ThreadIds : GetDelCache(t)
    \/ \E t \in ThreadIds : GetDelTimestamp(t)
    \/ \E t \in ThreadIds : SetCache(t)
    \/ \E t \in ThreadIds : SetTimestamp(t)
    \/ \E t \in ThreadIds : ClearCache(t)
    \/ \E t \in ThreadIds : ClearTimestamps(t)
    \/ \E t \in ThreadIds : Size(t)
    \/ \E t \in ThreadIds : CleanupScan(t)
    \/ \E t \in ThreadIds : CleanupDelCache(t)
    \/ \E t \in ThreadIds : CleanupDelTimestamp(t)
    \/ \E t \in ThreadIds : CleanupReturn(t)

SpecThreads == InitThreads /\ [][NextThreads]_vars

---------------------------------------------------------------------------
(* The lock discipline, checked under SpecThreads *)

\* The thread is between entering and leaving a with self._lock block.
InsideStore(t) == threads[t].pc \notin {"idle", "read_time", "acquire"}

\* Every stored entry is whole: value and timestamp are those of the latest
\* completed set of its key.
EntriesWhole ==
    /\ DOMAIN cache = DOMAIN timestamps
    /\ \A key \in DOMAIN cache :
          /\ key \in DOMAIN written
          /\ cache[key] = written[key].value
          /\ timestamps[key] = written[key].at

\* C14: every read and mutation of the store happens with the lock held, so
\* at most one operation is inside the store at a time, an operation that
\* enters the store finds every entry whole, and no call meets a value
\* without its timestamp.
C14_StoreSerialized ==
    /\ \A t \in DOMAIN threads : InsideStore(t) => lock = Some(t)
    /\ Cardinality({ t \in DOMAIN threads : InsideStore(t) }) <= 1
    /\ \A t \in DOMAIN threads : threads[t].pc = "locked" => EntriesWhole
    /\ IsNone(lock) => EntriesWhole
    /\ \A t \in DOMAIN threads : ~threads[t].result.raised

\* One thread is between the two statements of set while another waits for
\* the lock to read the same key.
C14_Witness ==
    \E t, u \in DOMAIN threads :
        /\ threads[t].pc = "set_timestamp"
        /\ threads[t].key \notin DOMAIN timestamps
        /\ threads[u].pc = "acquire"
        /\ threads[u].op = "get"
        /\ threads[u].key = threads[t].key

---------------------------------------------------------------------------
(* Key derivation for pairs of requests *)

\* Latitudes and longitudes in thousandths of a degree: two inside one
\* hundredth, and one on each side of zero.
KeyLats == {40712, 40714, -4, 4}

KeyLons == {-74004, -74001, -4, 4}

InitKey ==
    /\ CacheIdle
    /\ ReqIdle
    /\ input \in { [ a |-> [lat |-> la, lon |-> lo], b |-> [lat |-> lb, lon |-> lp] ] :
                     la \in KeyLats, lo \in KeyLons, lb \in KeyLats, lp \in KeyLons }
    /\ output = None
    /\ prev = None

\* Line 48, for two requests: cache_key = f"airquality:{lat:.2f}:{lon:.2f}"
DeriveKeys ==
    /\ IsNone(output)
    /\ output' = Some([ a |-> cache_key(input.a.lat, input.a.lon),
                        b |-> cache_key(input.b.lat, input.b.lon) ])
    /\ UNCHANGED <<cacheVars, lockVars, req, input, prev>>

NextKey == DeriveKeys

SpecKey == InitKey /\ [][NextKey]_vars

\* round(x, 2) of a coordinate in thousandths, in hundredths.
round2(x) == IF x < 0 THEN -round(-x, 10) ELSE round(x, 10)

\* C15: two requests whose latitudes round to the same 2-decimal value and
\* whose longitudes do too derive the same key, also when the values round
\* to zero from different sides.
C15_SameCellSameKey ==
    ~IsNone(output) =>
        ( /\ round2(input.a.lat) = round2(input.b.lat)
          /\ round2(input.a.lon) = round2(input.b.lon)
          => output[1].a = output[1].b )

---------------------------------------------------------------------------
(* Completion order of the four tasks, checked under Spec *)

\* The merged value and source tags of pollutant p when the satellite
\* readings s are applied first and the ground readings g second.
SatelliteThenGround(s, g, p) ==
    IF p \in DOMAIN s /\ p \in DOMAIN g
    THEN [value |-> Some((4 * s[p] + 6 * g[p]) \div 10), source |-> <<"TEMPO", "OpenAQ">>]
    ELSE IF p \in DOMAIN s
    THEN [value |-> Some(s[p]), source |-> <<"TEMPO">>]
    ELSE [value |-> Some(g[p]), source |-> <<"OpenAQ">>]

\* Task a finished before task b in request r.
FinishedBefore(r, a, b) ==
    \E i, j \in 1..Len(req[r].order) :
        i < j /\ req[r].order[i] = a /\ req[r].order[j] = b

\* C16: a request is assembled only when all four tasks have finished, and
\* its merged pollutant set (values and source-tag order) is the one of
\* satellite-first-then-ground whatever the order in which the tasks
\* finished.
C16_MergeIgnoresCompletionOrder ==
    \A r \in DOMAIN req :
        Assembled(r) =>
            LET s == SatelliteReadings(r)
                g == GroundReadings(r)
                merged == req[r].response[1].pollutants
            IN  /\ { req[r].order[i] : i \in 1..Len(req[r].order) } = AdapterNames
                /\ Len(req[r].order) = 4
                /\ DOMAIN merged = DOMAIN s \cup DOMAIN g
                /\ \A p \in DOMAIN merged :
                      /\ merged[p].value = SatelliteThenGround(s, g, p).value
                      /\ merged[p].source = SatelliteThenGround(s, g, p).source

\* A request whose ground call finished first and whose satellite call
\* finished last, both with NO2: the tags are still satellite first.
C16_Witness ==
    \E r \in DOMAIN req :
        /\ Assembled(r)
        /\ req[r].order[1] = "openaq_data"
        /\ req[r].order[4] = "tempo_data"
        /\ "no2" \in DOMAIN SatelliteReadings(r)
        /\ "no2" \in DOMAIN GroundReadings(r)
        /\ req[r].response[1].pollutants.no2.source = <<"TEMPO", "OpenAQ">>

---------------------------------------------------------------------------
(* Overlapping requests for one key, checked under SpecRequests *)

\* Another request than r is between its cache miss and its cache write,
\* for the key q derives.
InFlight(r, q) ==
    \E u \in DOMAIN req \ {r} :
        req[u].pc = "fetching" /\ KeyOf(req[u]) = KeyOf(q)

\* C19: a request that misses the cache while another request for the same
\* key is in flight is not joined to it: it creates its own four tasks, and
\* each of the two, when it completes, writes its own record under the key
\* over whatever the other wrote.
C19_NoSingleFlight ==
    [][ \A r \in DOMAIN req :
          /\ ( /\ req[r].pc = "idle" /\ req'[r].pc # "idle"
               /\ ~Live(KeyOf(req'[r]))
               /\ InFlight(r, req'[r]) ) =>
                  /\ req'[r].pc = "fetching"
                  /\ ~req'[r].from_cache
                  /\ \A task \in AdapterNames : req'[r][task].state = "pending"
          /\ ( /\ req[r].pc = "fetching" /\ req'[r].pc = "done" ) =>
                  /\ \A task \in AdapterNames : req[r][task].state # "pending"
                  /\ ~req'[r].from_cache
                  /\ cache'[KeyOf(req[r])] = req'[r].response[1]
                  /\ timestamps'[KeyOf(req[r])] = now
      ]_vars

\* Two requests for one key, both assembled from their own fetches less
\* than a TTL apart (so both had checked the cache before either wrote),
\* hold different records; the cache holds the record of the later one.
C19_Witness ==
    \E r, u \in DOMAIN req :
        /\ r # u
        /\ Assembled(r)
        /\ Assembled(u)
        /\ KeyOf(req[r]) = KeyOf(req[u])
        /\ req[r].response # req[u].response
        /\ req[r].response[1].timestamp_iso <= req[u].response[1].timestamp_iso
        /\ req[u].response[1].timestamp_iso - req[r].response[1].timestamp_iso <= ttl
        /\ KeyOf(req[u]) \in DOMAIN cache
        /\ cache[KeyOf(req[u])] = req[u].response[1]
        /\ cache[KeyOf(req[u])] # req[r].response[1]

---------------------------------------------------------------------------
(* Concentrations below the tables, checked under SpecAqi *)

\* Pollutant p of the dict is tabled and its concentration lies below the
\* lower bound of its first segment.
BelowTable(pollutants, p) ==
    /\ p \in DOMAIN pollutants
    /\ p \in DOMAIN breakpoints
    /\ ~IsNone(pollutants[p].value)
    /\ pollutants[p].value[1] < breakpoints[p][1][1]

\* C21: a concentration below the lower bound of a tabled pollutant's first
\* segment yields a sub-index computed from that first segment.
C21_BelowTableUsesLowestSegment ==
    ~IsNone(output) =>
        \A p \in DOMAIN input :
            BelowTable(input, p) =>
                SubIndex(p, input[p]) =
                    Some(Interpolate(breakpoints[p][1], input[p].value[1]))

\* C21 amended: a concentration below the lower bound of a tabled
\* pollutant's first segment matches no segment and yields no sub-index;
\* the result is the one for the dict's other pollutants alone (50 when
\* there is none with a sub-index), which is also what a sub-index taken
\* from the first segment, being at most 0, would have left.
C21_BelowTableContributesNothing ==
    ~IsNone(output) =>
        \A p \in DOMAIN input :
            BelowTable(input, p) =>
                LET others == [q \in DOMAIN input \ {p} |-> input[q]]
                IN  /\ IsNone(SubIndex(p, input[p]))
                    /\ output[1] = (IF SubIndices(others) = {} THEN 50
                                    ELSE Max2(Max(SubIndices(others)), 50))
                    /\ Interpolate(breakpoints[p][1], input[p].value[1]) <= 0
                    /\ output[1] >= 50

\* A dict with one pollutant below its table and another at sub-index 100:
\* the result is 100.
C21_Witness ==
    /\ ~IsNone(output)
    /\ \E p, q \in DOMAIN input :
          /\ p # q
          /\ BelowTable(input, p)
          /\ SubIndex(q, input[q]) = Some(100)
          /\ output[1] = 100

---------------------------------------------------------------------------
(* The weather defaults, checked under Spec *)

\* Request r was answered on the heuristic path: its history call gave
\* fewer points than the model path needs.
HeuristicRequest(r) ==
    \/ NoData(req[r].historical_data)
    \/ Len(req[r].historical_data.value) < MinHistory

\* C22: when the weather adapter yields no data, the weather in the
\* response, the weather the advice is generated from and the weather the
\* heuristic forecast is computed from are all the default (precip_mm=0,
\* wind_speed_ms=0, temp_c=20, humidity=60, no sources).
C22_OneDefaultWeather ==
    \A r \in DOMAIN req :
        (Assembled(r) /\ NoData(req[r].weather_data) /\ HeuristicRequest(r)) =>
            LET response == req[r].response[1]
            IN  /\ response.weather = DefaultWeather
                /\ response.advice = get_health_advice(response.aqi.value, DefaultWeather)
                /\ \E hour_now \in RequestHourNow : \E env \in RequestEnvs(req[r].hours) :
                      response.forecast_24h =
                         simple_forecast(DefaultWeather, req[r].hours, hour_now, env.noise)

---------------------------------------------------------------------------
(* Rush hours and night in the heuristic forecast, checked under SpecForecast *)

\* The hour of day of the h-th point of the forecast made for the input.
HourOfPoint(h) == (input.hour_now + h) % 24

RushHour(hour) == hour \in {7, 8, 17, 18, 19}

Overnight(hour) == hour \notin {7, 8, 10, 11, 12, 13, 14, 15, 17, 18, 19}

\* The call returned a heuristic forecast.
HeuristicForecast ==
    /\ ~IsNone(output)
    /\ ~output[1].result.raised
    /\ output[1].result.path = "heuristic"

\* C23: in a heuristic forecast every rush-hour point has a higher AQI than
\* every overnight point.
C23_RushAboveOvernight ==
    HeuristicForecast =>
        \A h1, h2 \in 1..input.hours :
            (RushHour(HourOfPoint(h1)) /\ Overnight(HourOfPoint(h2))) =>
                output[1].result.forecast[h1].aqi > output[1].result.forecast[h2].aqi

\* C23 amended: before the random draw is added, a rush-hour point is 25
\* above an overnight point of the same forecast; the returned AQI of the
\* rush-hour point is at least that of the overnight point whenever its
\* draw is not more than 25 below the other's, and with equal draws it is
\* strictly higher unless both are clamped to the same end of [0, 500].
C23_RushAboveOvernightBeforeNoise ==
    HeuristicForecast =>
        \A h1, h2 \in 1..input.hours :
            (RushHour(HourOfPoint(h1)) /\ Overnight(HourOfPoint(h2))) =>
                LET forecast == output[1].result.forecast
                    noise == output[1].env.noise
                IN  /\ simple_sum(input.weather_data, HourOfPoint(h1), 0)
                       = simple_sum(input.weather_data, HourOfPoint(h2), 0) + 2500
                    /\ noise[h1] >= noise[h2] - 2500 =>
                          forecast[h1].aqi >= forecast[h2].aqi
                    /\ noise[h1] = noise[h2] =>
                          \/ forecast[h1].aqi > forecast[h2].aqi
                          \/ forecast[h1].aqi = forecast[h2].aqi
                             /\ forecast[h1].aqi \in {0, 500}

\* A heuristic forecast whose first point is a rush hour and whose second
\* is overnight, with the same draw for both: the first is 25 higher.
C23_Witness ==
    /\ HeuristicForecast
    /\ input.hours >= 2
    /\ RushHour(HourOfPoint(1))
    /\ Overnight(HourOfPoint(2))
    /\ output[1].env.noise[1] = output[1].env.noise[2]
    /\ output[1].result.forecast[1].aqi = output[1].result.forecast[2].aqi + 25

---------------------------------------------------------------------------
(* The two maps of the store, checked under SpecThreads *)

\* The thread has changed one of the two maps and not yet the other.
BetweenPairedStatements(t) ==
    threads[t].pc \in {"del_timestamp", "set_timestamp", "clear_timestamps",
                       "sweep_timestamp"}

\* C24: under every interleaving of get, set, clear, size and
\* cleanup_expired the value map and the timestamp map have the same key
\* set, except while the one thread that holds the lock is between the two
\* statements that update them; no operation ever enters the store in such
\* a moment, and no get (nor any other call) fails on a missing key.
C24_SameKeySets ==
    /\ (\A t \in DOMAIN threads : ~BetweenPairedStatements(t)) =>
          DOMAIN cache = DOMAIN timestamps
    /\ \A t \in DOMAIN threads :
          BetweenPairedStatements(t) =>
              /\ lock = Some(t)
              /\ \A u \in DOMAIN threads \ {t} : ~InsideStore(u)
    /\ \A t \in DOMAIN threads :
          (threads[t].pc = "locked" /\ threads[t].op = "get"
           /\ threads[t].key \in DOMAIN cache) =>
              threads[t].key \in DOMAIN timestamps
    /\ \A t \in DOMAIN threads : threads[t].result.raised = FALSE

\* A get holds the lock on a stored, expired entry while a cleanup_expired
\* that read the clock earlier waits for the lock; both maps hold both keys.
C24_Witness ==
    \E t, u \in DOMAIN threads :
        /\ threads[t].pc = "locked"
        /\ threads[t].op = "get"
        /\ threads[t].key \in DOMAIN cache
        /\ now - timestamps[threads[t].key] > ttl
        /\ threads[u].pc = "acquire"
        /\ threads[u].op = "cleanup_expired"
        /\ threads[u].current_time < now
        /\ DOMAIN cache = CacheKeys
        /\ DOMAIN timestamps = CacheKeys

---------------------------------------------------------------------------
(* Failed requests and the cache, checked under SpecRequests *)

\* C25: a request that fails during assembly is answered with status 500
\* and no record, and the step in which it fails leaves the cache exactly
\* as it was, so that whatever a later request is served from the cache is
\* a record that a successful request stored.
C25_FailureLeavesCacheAlone ==
    [][ \A r \in DOMAIN req :
          /\ (req[r].pc = "fetching" /\ req'[r].pc = "failed") =>
                /\ req'[r].status = 500
                /\ IsNone(req'[r].response)
                /\ cache' = cache
                /\ timestamps' = timestamps
          /\ (req[r].pc = "idle" /\ req'[r].pc = "done") =>
                /\ req'[r].from_cache
                /\ "aqi" \in DOMAIN req'[r].response[1]
                /\ Len(req'[r].response[1].forecast_24h) \in RequestHours
          /\ (req[r].pc = "fetching" /\ req'[r].pc # "fetching") =>
                req'[r].pc \in {"done", "failed"}
      ]_vars

\* A request has failed on a malformed ground reply while the cache still
\* holds, under its key, the record another request stored before.
C25_Witness ==
    \E r, u \in DOMAIN req :
        /\ r # u
        /\ req[r].pc = "failed"
        /\ req[r].status = 500
        /\ req[r].openaq_data = ReturnedValue(OpenaqMalformed)
        /\ Assembled(u)
        /\ KeyOf(req[u]) = KeyOf(req[r])
        /\ KeyOf(req[r]) \in DOMAIN cache
        /\ cache[KeyOf(req[r])] = req[u].response[1]
        /\ timestamps[KeyOf(req[r])] = req[u].response[1].timestamp_iso

=============================================================================
